---- MODULE Spec2Model ----
(***************************************************************************)
(* State-machine model of the SQL tools of duwende-starter:                *)
(*   SqlTool        (src/tools/sql_tool.js)     postgresql | mysql | sqlite *)
(*   SqliteTool     (src/tools/sqlite_tool.js)                              *)
(*   PostgreSQLTool (src/tools/postgresql_tool.js)                          *)
(* One tool instance is modelled.  JavaScript runs one job at a time, so    *)
(* an action is the code that runs between two awaits of one call; the      *)
(* backend (pool, server, file system) is the environment and answers in    *)
(* any order.                                                               *)
(***************************************************************************)
EXTENDS Integers, Sequences, FiniteSets, TLC

VARIABLES cfg, connection, hstate, hscript, calls, initdb, checkedOut,
          cleanups, cleanupRaised, early, store, conn, dcalls, tool, tcall

(* the backend's data, as seen through the adapters *)
dvars == <<store, conn, dcalls>>

(* the sibling tools: the tool in use and its use call *)
tvars == <<tool, tcall>>

vars == <<cfg, connection, hstate, hscript, calls, initdb, checkedOut,
          cleanups, cleanupRaised, early, dvars, tvars>>

(* ------------------------------ bounds --------------------------------- *)
MaxCalls == 2
MaxHandles == 2
MaxCleanups == 2
PoolMax == 1

(* ----------------------- JavaScript string helpers ---------------------- *)
LowerLetters == <<"a","b","c","d","e","f","g","h","i","j","k","l","m",
                  "n","o","p","q","r","s","t","u","v","w","x","y","z">>
UpperLetters == <<"A","B","C","D","E","F","G","H","I","J","K","L","M",
                  "N","O","P","Q","R","S","T","U","V","W","X","Y","Z">>

UpperChar(c) ==
  IF \E i \in 1..Len(LowerLetters) : LowerLetters[i] = c
  THEN UpperLetters[CHOOSE i \in 1..Len(LowerLetters) : LowerLetters[i] = c]
  ELSE c

toUpperCase(s) == [i \in 1..Len(s) |-> UpperChar(s[i])]

includes(s, sub) ==
  \E i \in 0..(Len(s) - Len(sub)) : SubSeq(s, i + 1, i + Len(sub)) = sub

(* ------------------------------ requests -------------------------------- *)
(* A JavaScript value is a record: t is its type, s its text, n its number. *)
Str(s) == [t |-> "string", s |-> s, n |-> 0]
Num(n) == [t |-> "number", s |-> <<>>, n |-> n]
Undefined == [t |-> "undefined", s |-> <<>>, n |-> 0]
Null == [t |-> "null", s |-> <<>>, n |-> 0]
(* values: an array of JavaScript values, or something that is no array *)
Arr(a) == [t |-> "array", a |-> a]
NoArr(t) == [t |-> t, a |-> <<>>]

qSelect == <<"s","e","l","e","c","t"," ","1">>
qDelete == <<"d","e","l","e","t","e"," ","f","r","o","m"," ","t">>
qDropMixed == <<"x",";","D","r","o","p"," ","t","A","b","l","e"," ","t">>
vDashes == <<"a","-","-">>

Requests ==
  { [query |-> Undefined,       values |-> NoArr("undefined")],
    [query |-> Str(<<>>),       values |-> Arr(<<>>)],
    [query |-> Num(7),          values |-> NoArr("undefined")],
    [query |-> Str(qSelect),    values |-> NoArr("undefined")],
    [query |-> Str(qDelete),    values |-> Arr(<<Num(1), Null>>)],
    [query |-> Str(qDelete),    values |-> Arr(<<Str(vDashes)>>)],
    [query |-> Str(qSelect),    values |-> NoArr("null")],
    [query |-> Str(qDropMixed), values |-> NoArr("undefined")] }

NoRequest == [query |-> Undefined, values |-> NoArr("none")]

(* JavaScript truthiness of a query value: `!query` *)
Falsy(v) ==
  \/ v.t \in {"undefined", "null"}
  \/ v.t = "string" /\ v.s = <<>>
  \/ v.t = "number" /\ v.n = 0

toLowerCase(s) ==
  [i \in 1..Len(s) |->
     IF \E k \in 1..Len(UpperLetters) : UpperLetters[k] = s[i]
     THEN LowerLetters[CHOOSE k \in 1..Len(UpperLetters) : UpperLetters[k] = s[i]]
     ELSE s[i]]

RECURSIVE trimStart(_)
trimStart(s) == IF s # <<>> /\ Head(s) = " " THEN trimStart(Tail(s)) ELSE s

RECURSIVE trimEnd(_)
trimEnd(s) ==
  IF s # <<>> /\ s[Len(s)] = " " THEN trimEnd(SubSeq(s, 1, Len(s) - 1)) ELSE s

trim(s) == trimEnd(trimStart(s))

startsWith(s, p) == Len(s) >= Len(p) /\ SubSeq(s, 1, Len(p)) = p

kwSelect == <<"s","e","l","e","c","t">>

isSelect(q) == startsWith(toLowerCase(trim(q)), kwSelect)

(* --------------------------- trust screen ------------------------------- *)
unsafeCommands ==
  { <<"D","R","O","P"," ","T","A","B","L","E">>,
    <<"D","R","O","P"," ","D","A","T","A","B","A","S","E">>,
    <<"T","R","U","N","C","A","T","E"," ","T","A","B","L","E">> }

unsafePatterns ==
  { <<";"," ","D","R","O","P">>, <<"-","-">>, <<";","-","-">>,
    <<"/","*">>, <<"*","/">> }

(* use dropping the values of the request *)
DefaultValues_Empty(values) == Arr(<<>>)

(* SqlTool.use line 238: `values = []` replaces undefined only *)
DefaultValues(values) == IF values.t = "undefined" THEN Arr(<<>>) ELSE values

(* isTrustedQuery matching the commands case-sensitively, as               *)
(* PostgreSQLTool.isTrustedQuery does                                      *)
isTrustedQuery_CaseSensitive(query, values) ==
  IF query.t # "string" THEN "throws"
  ELSE IF \E cmd \in unsafeCommands : includes(query.s, cmd)
       THEN "untrusted"
  ELSE IF values.t # "array" THEN "throws"
  ELSE IF \E i \in 1..Len(values.a) :
            /\ values.a[i].t = "string"
            /\ \E pat \in unsafePatterns : includes(values.a[i].s, pat)
       THEN "untrusted"
  ELSE "trusted"

(* SqlTool.isTrustedQuery: "trusted", "untrusted", or "throws" (TypeError:  *)
(* query has no toUpperCase, or values has no some).                        *)
isTrustedQuery(query, values) ==
  IF query.t # "string" THEN "throws"
  ELSE IF \E cmd \in unsafeCommands : includes(toUpperCase(query.s), cmd)
       THEN "untrusted"
  ELSE IF values.t # "array" THEN "throws"
  ELSE IF \E i \in 1..Len(values.a) :
            /\ values.a[i].t = "string"
            /\ \E pat \in unsafePatterns : includes(values.a[i].s, pat)
       THEN "untrusted"
  ELSE "trusted"

(* ------------------------------ results --------------------------------- *)
MsgRequired == "Query is required"
MsgInjection == "Potential SQL injection detected"
MsgNative == "backend error"
MsgTypeError == "TypeError"
MsgNoHandle == "null is not an object"
MsgConnect == "cannot open"

ErrorContent(msg) == [error |-> msg, success |-> FALSE]

Envelope(status, content) == [status |-> status, content |-> content]

NoEnvelope == Envelope(0, [success |-> FALSE])

(* a failed result that hides the backend's message *)
FailedResult_Generic(msg) ==
  [rows |-> <<>>, affectedRows |-> 0, success |-> FALSE,
   error |-> "Query failed"]

FailedResult(msg) ==
  [rows |-> <<>>, affectedRows |-> 0, success |-> FALSE, error |-> msg]

(* What the backend hands back for a statement that succeeds. *)
NativeRows(query) == IF isSelect(query.s) THEN <<[x |-> 1]>> ELSE <<>>
NativeChanges(query) == IF isSelect(query.s) THEN 0 ELSE 1

(* pg's rowCount: rows returned, or rows changed *)
NativeRowCount(query) == Len(NativeRows(query)) + NativeChanges(query)

PostgresResult(query, outcome) ==
  IF outcome = "ok"
  THEN [rows |-> NativeRows(query), affectedRows |-> Len(NativeRows(query)),
        success |-> TRUE]
  ELSE FailedResult(MsgNative)

MysqlResult(query, outcome) ==
  IF outcome = "ok"
  THEN [rows |-> NativeRows(query),
        affectedRows |-> IF isSelect(query.s) THEN 0 ELSE NativeChanges(query),
        success |-> TRUE,
        lastInsertId |-> IF isSelect(query.s) THEN Undefined ELSE Num(1)]
  ELSE FailedResult(MsgNative)

SqliteResult(query, outcome) ==
  IF outcome = "ok"
  THEN IF isSelect(query.s)
       THEN [rows |-> NativeRows(query), affectedRows |-> Len(NativeRows(query)),
             success |-> TRUE]
       ELSE [rows |-> <<>>, affectedRows |-> NativeChanges(query),
             success |-> TRUE, lastInsertId |-> Num(1)]
  ELSE FailedResult(MsgNative)

executeResult(type, query, outcome) ==
  CASE type = "postgresql" -> PostgresResult(query, outcome)
    [] type = "mysql" -> MysqlResult(query, outcome)
    [] OTHER -> SqliteResult(query, outcome)

(* use answering 200 whatever the adapter's result says *)
UseEnvelope_Always200(result) == Envelope(200, result)

(* SqlTool.use lines 260-264 *)
UseEnvelope(result) == Envelope(IF result.success THEN 200 ELSE 400, result)

InitErrorMessage(type, msg) ==
  "Failed to initialize " \o type \o " database: " \o msg

(* ------------------------------- state ---------------------------------- *)
(* cfg        the constructor's params: class, type, dbPath kind, script    *)
(* connection this.connection / this.db / this.pool: a handle id, 0 = null  *)
(* hstate     per handle created so far: "live" or "closed"                 *)
(* hscript    per handle: the initialization script on it:                  *)
(*            "no", "run" (submitted), "ok", "failed"                       *)
(* calls      the use calls: position (pc), locals and what they did:       *)
(*            nInit, nScreen, nScript, nExec count the calls of initialize, *)
(*            isTrustedQuery, executeQuery on the script and on the query   *)
(*            waited: pool.connect() was called with no client free        *)
(*            interruptedAt: the first cleanup() that ran while the call   *)
(*            was suspended, 0 = none                                       *)
(* initdb     PostgreSQLTool.initializeDatabase started by the constructor  *)
(* checkedOut PostgreSQLTool: clients taken from the pool and not released  *)
(* cleanups   number of cleanup() calls made; cleanupRaised: one threw      *)
(* early      a caller statement ran on a handle before its script ended    *)
(* store      the database behind the handles: its table and rows           *)
(* conn       per handle: sqlite's changes() and lastInsertRowId            *)
(* dcalls     the use calls of the data specification (SpecData)            *)
(* tool       the sibling tool in use (SpecTools), "none" elsewhere         *)
(* tcall      the use call of the sibling tool                              *)

Classes == {"SqlTool", "SqliteTool", "PostgreSQLTool"}

Configs ==
  { k \in [cls : Classes, type : {"postgresql", "mysql", "sqlite"},
           file : BOOLEAN, script : BOOLEAN] :
      /\ k.cls = "SqliteTool" => k.type = "sqlite"
      /\ k.cls = "PostgreSQLTool" => k.type = "postgresql"
      /\ k.file => k.type = "sqlite" }

IdleCall ==
  [pc |-> "idle", req |-> NoRequest, h |-> 0, res |-> "none",
   out |-> "none", env |-> NoEnvelope,
   absent |-> FALSE, cleanupsBefore |-> 0,
   created |-> 0, initThrew |-> FALSE,
   nScript |-> 0, nExec |-> 0, served |-> 0, servedScript |-> "none",
   nInit |-> 0, nScreen |-> 0, lateScreen |-> FALSE, waited |-> FALSE,
   interruptedAt |-> 0]

Calls == 1..MaxCalls

NumHandles == Len(hstate)

LiveHandles == { h \in 1..NumHandles : hstate[h] = "live" }

InFlight == { c \in Calls : calls[c].pc \notin {"idle", "done"} }

Outcomes == {"ok", "err"}

(* the backend's answer for a statement on handle h: a closed handle fails *)
OutcomesOn(h) == IF hstate[h] = "live" THEN Outcomes ELSE {"err"}

(* close() on handle h: it can throw only when h is already closed *)
CloseThrows(h) == IF hstate[h] = "closed" THEN BOOLEAN ELSE {FALSE}

(* a call that ends: its locals are dropped *)
Finish(rec, env) ==
  [rec EXCEPT !.pc = "done", !.out = "envelope", !.env = env,
              !.h = 0, !.res = "none"]

Reject(rec) ==
  [rec EXCEPT !.pc = "done", !.out = "rejected", !.h = 0, !.res = "none"]

(* use without its outer catch: the error leaves use *)
UseCatch_Rethrow(rec, msg) == Reject(rec)

(* SqlTool.use lines 266-275: the outer catch *)
UseCatch(rec, msg) == Finish(rec, Envelope(400, ErrorContent(msg)))

(* SqlTool.initializeSqlite line 100 wraps the error, SqlTool.initialize    *)
(* lines 42-45 wraps it again and rethrows; use's catch turns it into 400  *)
InitFailure(rec, msg) ==
  UseCatch([rec EXCEPT !.initThrew = TRUE],
           InitErrorMessage(cfg.type, InitErrorMessage("sqlite", msg)))

(* no use call of a sibling tool *)
IdleTool == [pc |-> "idle"]

(* a database without the table *)
EmptyStore == [exists |-> FALSE, readonly |-> FALSE, rows |-> {}]

Init ==
  /\ cfg \in Configs
  /\ connection = IF cfg.cls = "PostgreSQLTool" THEN 1 ELSE 0
  /\ hstate = IF cfg.cls = "PostgreSQLTool" THEN <<"live">> ELSE <<>>
  /\ hscript = IF cfg.cls = "PostgreSQLTool" THEN <<"no">> ELSE <<>>
  /\ calls = [c \in Calls |-> IdleCall]
  /\ initdb = IF cfg.cls = "PostgreSQLTool" /\ cfg.script THEN "connect" ELSE "none"
  /\ checkedOut = 0
  /\ cleanups = 0
  /\ cleanupRaised = FALSE
  /\ early = FALSE
  /\ store = EmptyStore
  /\ conn = <<>>
  /\ dcalls = <<>>
  /\ tool = "none"
  /\ tcall = IdleTool

(* ------------------------------ SqlTool --------------------------------- *)
IsServer == cfg.type \in {"postgresql", "mysql"}

(* handles that calls suspended in mkdir are still going to open *)
PendingOpens == Cardinality({ c \in Calls : calls[c].pc = "mkdir" })

CanCreate == NumHandles + PendingOpens < MaxHandles

(* SqlTool.use line 250: isTrustedQuery is called; lateScreen tells that   *)
(* the caller's query had been handed to executeQuery before                *)
Screened(rec) ==
  [rec EXCEPT !.nScreen = @ + 1, !.lateScreen = @ \/ rec.nExec > 0]

(* SqlTool.use lines 238-264, run in one job: validation, trust screen and  *)
(* the call of executeQuery.  The embedded adapter answers in the same job; *)
(* the server adapters submit the statement and await the backend.          *)
UseBody(c, rec0) ==
  LET query == rec0.req.query
      values == DefaultValues(rec0.req.values)
      trust == isTrustedQuery(query, values)
      rec == Screened(rec0)
  IN  IF Falsy(query)
      THEN calls' = [calls EXCEPT ![c] = Finish(rec0, Envelope(400, ErrorContent(MsgRequired)))]
      ELSE IF trust = "throws"
      THEN calls' = [calls EXCEPT ![c] = UseCatch(rec, MsgTypeError)]
      ELSE IF trust = "untrusted"
      THEN calls' = [calls EXCEPT ![c] = Finish(rec, Envelope(400, ErrorContent(MsgInjection)))]
      ELSE IF connection = 0
      THEN calls' = [calls EXCEPT ![c] =
                       Finish([rec EXCEPT !.nExec = @ + 1],
                              UseEnvelope(FailedResult(MsgNoHandle)))]
      ELSE IF IsServer
      THEN calls' = [calls EXCEPT ![c] =
                       [rec EXCEPT !.pc = "exec_wait", !.h = connection,
                                   !.nExec = @ + 1]]
      ELSE \E outcome \in OutcomesOn(connection) :
             calls' = [calls EXCEPT ![c] =
                         Finish([rec EXCEPT !.nExec = @ + 1,
                                            !.served = connection,
                                            !.servedScript = hscript[connection]],
                                UseEnvelope(executeResult(cfg.type, query, outcome)))]

(* whether the database can be opened: a file's directory may not be       *)
(* creatable or the file not openable; the in-memory database always opens *)
CanOpen == IF cfg.file THEN BOOLEAN ELSE {TRUE}

(* SqlTool.initializeSqlite lines 82-98: open the file, run the script *)
SqliteOpen(c, rec) ==
  \E opens \in CanOpen :
    IF ~opens
    THEN /\ calls' = [calls EXCEPT ![c] = InitFailure(rec, MsgConnect)]
         /\ UNCHANGED <<connection, hstate, hscript>>
    ELSE LET h == NumHandles + 1 IN
         IF ~cfg.script
         THEN /\ hstate' = Append(hstate, "live")
              /\ hscript' = Append(hscript, "no")
              /\ connection' = h
              /\ calls' = [calls EXCEPT ![c] = [rec EXCEPT !.pc = "created", !.created = h]]
         ELSE \E outcome \in Outcomes :
                IF outcome = "ok"
                THEN /\ hstate' = Append(hstate, "live")
                     /\ hscript' = Append(hscript, "ok")
                     /\ connection' = h
                     /\ calls' = [calls EXCEPT ![c] =
                                    [rec EXCEPT !.pc = "created", !.created = h,
                                                !.nScript = @ + 1]]
                ELSE /\ hstate' = Append(hstate, "closed")
                     /\ hscript' = Append(hscript, "failed")
                     /\ connection' = 0
                     /\ calls' = [calls EXCEPT ![c] =
                                    InitFailure([rec EXCEPT !.created = h,
                                                            !.nScript = @ + 1],
                                                MsgNative)]

(* use initializing on every call *)
NeedsInit_Always == TRUE

(* use initializing on the instance's first call only *)
NeedsInit_FirstOnly == connection = 0 /\ NumHandles = 0

(* SqlTool.use line 234: `if (!this.connection)` *)
NeedsInit == connection = 0

(* SqlTool.use line 231 up to the first await *)
SqlStart(c, r) ==
  /\ cfg.cls = "SqlTool"
  /\ calls[c].pc = "idle"
  /\ c > 1 => calls[c - 1].pc # "idle"
  /\ LET rec == [calls[c] EXCEPT !.req = r, !.absent = (connection = 0),
                                 !.cleanupsBefore = cleanups,
                                 !.nInit = IF NeedsInit THEN 1 ELSE 0]
     IN  IF ~NeedsInit
         THEN /\ UseBody(c, rec)
              /\ UNCHANGED <<connection, hstate, hscript>>
         ELSE /\ CanCreate
              /\ CASE cfg.type = "postgresql" ->
                        /\ hstate' = Append(hstate, "live")
                        /\ hscript' = Append(hscript, "no")
                        /\ connection' = NumHandles + 1
                        /\ calls' = [calls EXCEPT ![c] =
                                       [rec EXCEPT !.pc = "created",
                                                   !.created = NumHandles + 1]]
                   [] cfg.type = "mysql" ->
                        /\ hstate' = Append(hstate, "live")
                        /\ hscript' = Append(hscript, "no")
                        /\ calls' = [calls EXCEPT ![c] =
                                       [rec EXCEPT !.pc = "assign",
                                                   !.h = NumHandles + 1,
                                                   !.created = NumHandles + 1]]
                        /\ UNCHANGED connection
                   [] OTHER ->
                        IF cfg.file
                        THEN /\ calls' = [calls EXCEPT ![c] = [rec EXCEPT !.pc = "mkdir"]]
                             /\ UNCHANGED <<connection, hstate, hscript>>
                        ELSE SqliteOpen(c, rec)
  /\ UNCHANGED <<cfg, initdb, checkedOut, cleanups, cleanupRaised, early>>
  /\ UNCHANGED <<dvars, tvars>>

(* SqlTool.initializeSqlite after `await mkdir` (line 79); a failing mkdir *)
(* ends as a failing open does                                             *)
SqlMkdirDone(c) ==
  /\ cfg.cls = "SqlTool"
  /\ calls[c].pc = "mkdir"
  /\ SqliteOpen(c, calls[c])
  /\ UNCHANGED <<cfg, initdb, checkedOut, cleanups, cleanupRaised, early>>
  /\ UNCHANGED <<dvars, tvars>>

(* SqlTool.initializeMysql line 61: the assignment after `await createPool` *)
SqlAssignPool(c) ==
  /\ cfg.cls = "SqlTool"
  /\ calls[c].pc = "assign"
  /\ connection' = calls[c].h
  /\ calls' = [calls EXCEPT ![c] = [@ EXCEPT !.pc = "created", !.h = 0]]
  /\ UNCHANGED <<cfg, hstate, hscript, initdb, checkedOut, cleanups, cleanupRaised, early>>
  /\ UNCHANGED <<dvars, tvars>>

(* SqlTool.initialize lines 26-29 / 33-36 after the handle exists: submit   *)
(* the script through executeQuery; with no script, use goes on.            *)
SqlInitContinue(c) ==
  /\ cfg.cls = "SqlTool"
  /\ calls[c].pc = "created"
  /\ IF IsServer /\ cfg.script
     THEN IF connection = 0
          THEN /\ calls' = [calls EXCEPT ![c] =
                              [@ EXCEPT !.pc = "init_ret", !.res = "err",
                                        !.nScript = @ + 1]]
               /\ UNCHANGED hscript
          ELSE /\ calls' = [calls EXCEPT ![c] =
                              [@ EXCEPT !.pc = "init_wait", !.h = connection,
                                        !.nScript = @ + 1]]
               /\ hscript' = [hscript EXCEPT ![connection] =
                                IF @ = "no" THEN "run" ELSE @]
     ELSE /\ UseBody(c, calls[c])
          /\ UNCHANGED hscript
  /\ UNCHANGED <<cfg, connection, hstate, initdb, checkedOut, cleanups, cleanupRaised, early>>
  /\ UNCHANGED <<dvars, tvars>>

(* the server executes a submitted statement and answers (sql.unsafe line   *)
(* 121, connection.execute line 141); statements in flight are answered in  *)
(* any order.                                                               *)
BackendReply(c) ==
  /\ calls[c].pc \in {"init_wait", "exec_wait"}
  /\ \E outcome \in OutcomesOn(calls[c].h) :
       IF calls[c].pc = "init_wait"
       THEN /\ calls' = [calls EXCEPT ![c] = [@ EXCEPT !.pc = "init_ret", !.res = outcome]]
            /\ hscript' = [hscript EXCEPT ![calls[c].h] =
                             IF outcome = "ok" THEN "ok"
                             ELSE IF @ = "ok" THEN "ok" ELSE "failed"]
            /\ UNCHANGED early
       ELSE /\ calls' = [calls EXCEPT ![c] =
                           [@ EXCEPT !.pc = "exec_ret", !.res = outcome,
                                     !.served = calls[c].h,
                                     !.servedScript = hscript[calls[c].h]]]
            /\ early' = (early \/ (cfg.script /\ hscript[calls[c].h] \in {"no", "run"}))
            /\ UNCHANGED hscript
  /\ UNCHANGED <<cfg, connection, hstate, initdb, checkedOut, cleanups, cleanupRaised>>
  /\ UNCHANGED <<dvars, tvars>>

(* SqlTool.initialize after `await this.executeQuery(initialization)`: the  *)
(* adapter returned a result (it never throws), which is dropped.           *)
SqlInitReturn(c) ==
  /\ cfg.cls = "SqlTool"
  /\ calls[c].pc = "init_ret"
  /\ UseBody(c, [calls[c] EXCEPT !.h = 0, !.res = "none"])
  /\ UNCHANGED <<cfg, connection, hstate, hscript, initdb, checkedOut, cleanups, cleanupRaised, early>>
  /\ UNCHANGED <<dvars, tvars>>

(* use handing a failed statement to the adapter once more *)
SqlExecReturn_Retry(c) ==
  /\ cfg.cls = "SqlTool"
  /\ calls[c].pc = "exec_ret"
  /\ calls' = [calls EXCEPT ![c] =
                 IF @.res = "err" /\ @.nExec < 2 /\ connection # 0
                 THEN [@ EXCEPT !.pc = "exec_wait", !.h = connection,
                                !.res = "none", !.nExec = @ + 1]
                 ELSE Finish(@, UseEnvelope(executeResult(cfg.type, @.req.query, @.res)))]
  /\ UNCHANGED <<cfg, connection, hstate, hscript, initdb, checkedOut, cleanups, cleanupRaised, early>>
  /\ UNCHANGED <<dvars, tvars>>

(* SqlTool.use lines 260-264 after `await this.executeQuery(query, values)` *)
SqlExecReturn(c) ==
  /\ cfg.cls = "SqlTool"
  /\ calls[c].pc = "exec_ret"
  /\ calls' = [calls EXCEPT ![c] =
                 Finish(@, UseEnvelope(executeResult(cfg.type, @.req.query, @.res)))]
  /\ UNCHANGED <<cfg, connection, hstate, hscript, initdb, checkedOut, cleanups, cleanupRaised, early>>
  /\ UNCHANGED <<dvars, tvars>>

(* cleanup() ran while the call was suspended *)
Interrupted(rec, n) ==
  IF rec.pc \notin {"idle", "done"} /\ rec.interruptedAt = 0
  THEN [rec EXCEPT !.interruptedAt = n]
  ELSE rec

(* SqlTool.cleanup lines 278-298 *)
SqlCleanup ==
  /\ cfg.cls = "SqlTool"
  /\ cleanups < MaxCleanups
  /\ cleanups' = cleanups + 1
  /\ calls' = [c \in Calls |-> Interrupted(calls[c], cleanups + 1)]
  /\ IF connection = 0
     THEN UNCHANGED <<connection, hstate>>
     ELSE \E closeThrows \in CloseThrows(connection) :
            /\ hstate' = [hstate EXCEPT ![connection] = "closed"]
            /\ connection' = 0
  /\ UNCHANGED <<cfg, hscript, initdb, checkedOut, cleanupRaised, early>>
  /\ UNCHANGED <<dvars, tvars>>

(* the handle is closed behind the tool's back, as the test does with      *)
(* `sqliteTool.db.close()`                                                  *)
ForceClose ==
  /\ cfg.cls \in {"SqlTool", "SqliteTool"}
  /\ InFlight = {}
  /\ connection # 0
  /\ hstate[connection] = "live"
  /\ hstate' = [hstate EXCEPT ![connection] = "closed"]
  /\ UNCHANGED <<cfg, connection, hscript, calls, initdb, checkedOut, cleanups, cleanupRaised, early>>
  /\ UNCHANGED <<dvars, tvars>>


(* ----------------------------- SqliteTool ------------------------------- *)
MsgParams == "Query parameters are required but not provided"
qMark == <<"?">>

(* SqliteTool.use lines 46-128, run in one job *)
LiteBody(c, rec) ==
  LET query == rec.req.query
      values == rec.req.values
  IN  IF Falsy(query)
      THEN calls' = [calls EXCEPT ![c] = Finish(rec, Envelope(400, ErrorContent(MsgRequired)))]
      ELSE IF query.t # "string"
      THEN calls' = [calls EXCEPT ![c] = Finish(rec, Envelope(400, ErrorContent(MsgTypeError)))]
      ELSE IF includes(query.s, qMark) /\ values.t \in {"undefined", "null"}
      THEN calls' = [calls EXCEPT ![c] = Finish(rec, Envelope(400, ErrorContent(MsgParams)))]
      ELSE IF connection = 0
      THEN calls' = [calls EXCEPT ![c] = Finish(rec, Envelope(400, ErrorContent(MsgNoHandle)))]
      ELSE \E outcome \in OutcomesOn(connection) :
             calls' = [calls EXCEPT ![c] =
                         Finish([rec EXCEPT !.nExec = @ + 1,
                                            !.served = connection,
                                            !.servedScript = hscript[connection]],
                                IF outcome = "ok"
                                THEN Envelope(200, SqliteResult(query, outcome))
                                ELSE Envelope(400, ErrorContent(MsgNative)))]

(* SqliteTool.initialize lines 23-36: open, run the script; a failing       *)
(* script is rethrown and this.db keeps the handle                          *)
LiteOpen(c, rec) ==
  \E opens \in CanOpen :
    IF ~opens
    THEN /\ calls' = [calls EXCEPT ![c] =
                        UseCatch([rec EXCEPT !.initThrew = TRUE],
                                 "Failed to initialize database: " \o MsgConnect)]
         /\ UNCHANGED <<connection, hstate, hscript>>
    ELSE \E outcome \in (IF cfg.script THEN Outcomes ELSE {"ok"}) :
           /\ hstate' = Append(hstate, "live")
           /\ hscript' = Append(hscript, IF ~cfg.script THEN "no"
                                         ELSE IF outcome = "ok" THEN "ok" ELSE "failed")
           /\ connection' = NumHandles + 1
           /\ calls' = [calls EXCEPT ![c] =
                LET r2 == [rec EXCEPT !.created = NumHandles + 1,
                                      !.nScript = IF cfg.script THEN 1 ELSE 0]
                IN  IF outcome = "ok"
                    THEN [r2 EXCEPT !.pc = "created"]
                    ELSE UseCatch([r2 EXCEPT !.initThrew = TRUE],
                                  "Failed to initialize database: " \o MsgNative)]

(* SqliteTool.use line 39 up to the first await *)
LiteStart(c, r) ==
  /\ cfg.cls = "SqliteTool"
  /\ calls[c].pc = "idle"
  /\ c > 1 => calls[c - 1].pc # "idle"
  /\ LET rec == [calls[c] EXCEPT !.req = r, !.absent = (connection = 0),
                                 !.cleanupsBefore = cleanups,
                                 !.nInit = IF connection = 0 THEN 1 ELSE 0]
     IN  IF connection # 0
         THEN /\ LiteBody(c, rec)
              /\ UNCHANGED <<connection, hstate, hscript>>
         ELSE /\ CanCreate
              /\ IF cfg.file
                 THEN /\ calls' = [calls EXCEPT ![c] = [rec EXCEPT !.pc = "mkdir"]]
                      /\ UNCHANGED <<connection, hstate, hscript>>
                 ELSE LiteOpen(c, rec)
  /\ UNCHANGED <<cfg, initdb, checkedOut, cleanups, cleanupRaised, early>>
  /\ UNCHANGED <<dvars, tvars>>

(* SqliteTool.initialize after `await mkdir` (line 19) *)
LiteMkdirDone(c) ==
  /\ cfg.cls = "SqliteTool"
  /\ calls[c].pc = "mkdir"
  /\ LiteOpen(c, calls[c])
  /\ UNCHANGED <<cfg, initdb, checkedOut, cleanups, cleanupRaised, early>>
  /\ UNCHANGED <<dvars, tvars>>

(* SqliteTool.use after `await this.initialize()` (line 43) *)
LiteInitReturn(c) ==
  /\ cfg.cls = "SqliteTool"
  /\ calls[c].pc = "created"
  /\ LiteBody(c, calls[c])
  /\ UNCHANGED <<cfg, connection, hstate, hscript, initdb, checkedOut, cleanups, cleanupRaised, early>>
  /\ UNCHANGED <<dvars, tvars>>

(* SqliteTool.cleanup lines 196-201: no try around close() *)
LiteCleanup ==
  /\ cfg.cls = "SqliteTool"
  /\ cleanups < MaxCleanups
  /\ cleanups' = cleanups + 1
  /\ IF connection = 0
     THEN UNCHANGED <<connection, hstate, cleanupRaised>>
     ELSE \E closeThrows \in CloseThrows(connection) :
            IF closeThrows
            THEN /\ cleanupRaised' = TRUE
                 /\ UNCHANGED <<connection, hstate>>
            ELSE /\ hstate' = [hstate EXCEPT ![connection] = "closed"]
                 /\ connection' = 0
                 /\ UNCHANGED cleanupRaised
  /\ UNCHANGED <<cfg, hscript, calls, initdb, checkedOut, early>>
  /\ UNCHANGED <<dvars, tvars>>

(* --------------------------- PostgreSQLTool ----------------------------- *)
MsgInjectionPg == "Potential SQL injection detected."
MsgNullPg == "Cannot insert NULL into non-nullable column."
pgUnsafeCommands == { <<"D","R","O","P"," ","T","A","B","L","E">> }
pgUnsafePatterns ==
  { <<";"," ","D","R","O","P"," ","T","A","B","L","E">>, <<"-","-">> }
kwInsertInto == <<"I","N","S","E","R","T"," ","I","N","T","O">>
kwValuesNull == <<"V","A","L","U","E","S"," ","(","N","U","L","L",")">>

(* PostgreSQLTool.isTrustedQuery lines 98-117 *)
pgIsTrustedQuery(query, values) ==
  IF query.t # "string" THEN "throws"
  ELSE IF \E cmd \in pgUnsafeCommands : includes(query.s, cmd) THEN "untrusted"
  ELSE IF values.t # "array" THEN "throws"
  ELSE IF \E i \in 1..Len(values.a) :
            /\ values.a[i].t = "string"
            /\ \E pat \in pgUnsafePatterns : includes(values.a[i].s, pat)
       THEN "untrusted"
  ELSE "trusted"

(* PostgreSQLTool.initializeDatabase line 35-37: a client is acquired and   *)
(* the script submitted                                                     *)
PgInitConnect ==
  /\ cfg.cls = "PostgreSQLTool"
  /\ initdb = "connect"
  /\ checkedOut < PoolMax
  /\ checkedOut' = checkedOut + 1
  /\ initdb' = "query"
  /\ hscript' = [hscript EXCEPT ![connection] = "run"]
  /\ UNCHANGED <<cfg, connection, hstate, calls, cleanups, cleanupRaised, early>>
  /\ UNCHANGED <<dvars, tvars>>

(* the server answers the script (client.query line 37) *)
PgInitReply ==
  /\ initdb = "query"
  /\ \E outcome \in Outcomes :
       /\ hscript' = [hscript EXCEPT ![connection] = IF outcome = "ok" THEN "ok" ELSE "failed"]
       /\ initdb' = IF outcome = "ok" THEN "ok_ret" ELSE "err_ret"
  /\ UNCHANGED <<cfg, connection, hstate, calls, checkedOut, cleanups, cleanupRaised, early>>
  /\ UNCHANGED <<dvars, tvars>>

(* PostgreSQLTool.initializeDatabase lines 38-43: release; a failure is     *)
(* rethrown into a promise nobody awaits                                    *)
PgInitReturn ==
  /\ initdb \in {"ok_ret", "err_ret"}
  /\ checkedOut' = checkedOut - 1
  /\ initdb' = IF initdb = "ok_ret" THEN "done" ELSE "failed"
  /\ UNCHANGED <<cfg, connection, hstate, hscript, calls, cleanups, cleanupRaised, early>>
  /\ UNCHANGED <<dvars, tvars>>

(* PostgreSQLTool.use lines 46-68, up to `await this.pool.connect()` *)
PgStart(c, r) ==
  /\ cfg.cls = "PostgreSQLTool"
  /\ calls[c].pc = "idle"
  /\ c > 1 => calls[c - 1].pc # "idle"
  /\ LET rec == [calls[c] EXCEPT !.req = r]
         query == r.query
         trust == pgIsTrustedQuery(query, DefaultValues(r.values))
     IN  calls' = [calls EXCEPT ![c] =
           IF Falsy(query) \/ trust = "throws" THEN Reject(rec)
           ELSE IF trust = "untrusted"
           THEN Finish(rec, Envelope(400, [error |-> MsgInjectionPg]))
           ELSE IF includes(query.s, kwInsertInto) /\ includes(query.s, kwValuesNull)
           THEN Finish(rec, Envelope(400, [error |-> MsgNullPg]))
           ELSE [rec EXCEPT !.pc = "connect", !.waited = ~(checkedOut < PoolMax)]]
  /\ UNCHANGED <<cfg, connection, hstate, hscript, initdb, checkedOut, cleanups, cleanupRaised, early>>
  /\ UNCHANGED <<dvars, tvars>>

(* a pool with a connection timeout: a call that finds no client free is   *)
(* rejected instead of waiting                                              *)
PgAcquire_Timeout(c) ==
  /\ cfg.cls = "PostgreSQLTool"
  /\ calls[c].pc = "connect"
  /\ IF checkedOut < PoolMax
     THEN /\ checkedOut' = checkedOut + 1
          /\ calls' = [calls EXCEPT ![c] = [@ EXCEPT !.pc = "exec_wait", !.h = connection,
                                                     !.nExec = @ + 1]]
     ELSE /\ calls' = [calls EXCEPT ![c] = Reject(@)]
          /\ UNCHANGED checkedOut
  /\ UNCHANGED <<cfg, connection, hstate, hscript, initdb, cleanups, cleanupRaised, early>>
  /\ UNCHANGED <<dvars, tvars>>

(* PostgreSQLTool.use lines 68-70: a client is acquired, the query sent *)
PgAcquire(c) ==
  /\ cfg.cls = "PostgreSQLTool"
  /\ calls[c].pc = "connect"
  /\ checkedOut < PoolMax
  /\ checkedOut' = checkedOut + 1
  /\ calls' = [calls EXCEPT ![c] = [@ EXCEPT !.pc = "exec_wait", !.h = connection,
                                             !.nExec = @ + 1]]
  /\ UNCHANGED <<cfg, connection, hstate, hscript, initdb, cleanups, cleanupRaised, early>>
  /\ UNCHANGED <<dvars, tvars>>

(* use releasing its client at the end of the try block instead of in      *)
(* finally: a failed query keeps the client                                 *)
PgExecReturn_ReleaseInTry(c) ==
  /\ cfg.cls = "PostgreSQLTool"
  /\ calls[c].pc = "exec_ret"
  /\ checkedOut' = IF calls[c].res = "ok" THEN checkedOut - 1 ELSE checkedOut
  /\ calls' = [calls EXCEPT ![c] =
       IF @.res = "ok"
       THEN Finish(@, Envelope(200, [affectedRows |-> NativeRowCount(@.req.query),
                                     rows |-> NativeRows(@.req.query),
                                     success |-> TRUE]))
       ELSE Finish(@, Envelope(400, [error |-> MsgNative]))]
  /\ UNCHANGED <<cfg, connection, hstate, hscript, initdb, cleanups, cleanupRaised, early>>
  /\ UNCHANGED <<dvars, tvars>>

(* PostgreSQLTool.use lines 71-95 after `await client.query` *)
PgExecReturn(c) ==
  /\ cfg.cls = "PostgreSQLTool"
  /\ calls[c].pc = "exec_ret"
  /\ checkedOut' = checkedOut - 1
  /\ calls' = [calls EXCEPT ![c] =
       IF @.res = "ok"
       THEN Finish(@, Envelope(200, [affectedRows |-> NativeRowCount(@.req.query),
                                     rows |-> NativeRows(@.req.query),
                                     success |-> TRUE]))
       ELSE Finish(@, Envelope(400, [error |-> MsgNative]))]
  /\ UNCHANGED <<cfg, connection, hstate, hscript, initdb, cleanups, cleanupRaised, early>>
  /\ UNCHANGED <<dvars, tvars>>

Next ==
  \/ \E c \in Calls, r \in Requests : SqlStart(c, r)
  \/ \E c \in Calls : SqlMkdirDone(c)
  \/ \E c \in Calls : SqlAssignPool(c)
  \/ \E c \in Calls : SqlInitContinue(c)
  \/ \E c \in Calls : BackendReply(c)
  \/ \E c \in Calls : SqlInitReturn(c)
  \/ \E c \in Calls : SqlExecReturn(c)
  \/ SqlCleanup
  \/ ForceClose
  \/ \E c \in Calls, r \in Requests : LiteStart(c, r)
  \/ \E c \in Calls : LiteMkdirDone(c)
  \/ \E c \in Calls : LiteInitReturn(c)
  \/ LiteCleanup
  \/ PgInitConnect
  \/ PgInitReply
  \/ PgInitReturn
  \/ \E c \in Calls, r \in Requests : PgStart(c, r)
  \/ \E c \in Calls : PgAcquire(c)
  \/ \E c \in Calls : PgExecReturn(c)

Spec == Init /\ [][Next]_vars

(* Sequential use of the instance: a use call or a cleanup() is issued only *)
(* when no use call is in flight (the caller awaits each call).             *)
Quiet == InFlight = {}

SeqNext ==
  \/ Quiet /\ \E c \in Calls, r \in Requests : SqlStart(c, r)
  \/ \E c \in Calls : SqlMkdirDone(c)
  \/ \E c \in Calls : SqlAssignPool(c)
  \/ \E c \in Calls : SqlInitContinue(c)
  \/ \E c \in Calls : BackendReply(c)
  \/ \E c \in Calls : SqlInitReturn(c)
  \/ \E c \in Calls : SqlExecReturn(c)
  \/ Quiet /\ SqlCleanup
  \/ ForceClose
  \/ Quiet /\ \E c \in Calls, r \in Requests : LiteStart(c, r)
  \/ \E c \in Calls : LiteMkdirDone(c)
  \/ \E c \in Calls : LiteInitReturn(c)
  \/ Quiet /\ LiteCleanup
  \/ PgInitConnect
  \/ PgInitReply
  \/ PgInitReturn
  \/ Quiet /\ \E c \in Calls, r \in Requests : PgStart(c, r)
  \/ \E c \in Calls : PgAcquire(c)
  \/ \E c \in Calls : PgExecReturn(c)

SpecSeq == Init /\ [][SeqNext]_vars

(* PostgreSQLTool under a saturated pool, with the scheduling the runtime   *)
(* gives: the server answers every statement it was sent, the event loop    *)
(* runs the continuation of every settled await, and the pool hands a       *)
(* released client to a call waiting in pool.connect().                     *)
PoolInit == Init /\ cfg.cls = "PostgreSQLTool"

PoolNext ==
  \/ PgInitConnect
  \/ PgInitReply
  \/ PgInitReturn
  \/ \E c \in Calls, r \in Requests : PgStart(c, r)
  \/ \E c \in Calls : PgAcquire(c)
  \/ \E c \in Calls : BackendReply(c)
  \/ \E c \in Calls : PgExecReturn(c)

PoolFairness ==
  /\ WF_vars(PgInitConnect)
  /\ WF_vars(PgInitReply)
  /\ WF_vars(PgInitReturn)
  /\ \A c \in Calls :
       /\ WF_vars(PgAcquire(c))
       /\ WF_vars(BackendReply(c))
       /\ WF_vars(PgExecReturn(c))

SpecPool == PoolInit /\ [][PoolNext]_vars /\ PoolFairness

(* ------------------------------ properties ------------------------------ *)
Done(c) == calls[c].pc = "done"

SqlCall(c) == cfg.cls = "SqlTool" /\ Done(c)

(* invocations of executeQuery during call c: the caller's query, and on a *)
(* server backend the initialization script (sql_tool.js lines 28, 35)     *)
AdapterCalls(c) == calls[c].nExec + (IF IsServer THEN calls[c].nScript ELSE 0)

InjectionEnvelope == Envelope(400, ErrorContent(MsgInjection))
RequiredEnvelope == Envelope(400, ErrorContent(MsgRequired))

kwDropTable == <<"d","r","o","p"," ","t","a","b","l","e">>

SameLetter(a, b) == a = b \/ UpperChar(a) = b \/ a = UpperChar(b)

(* the text holds 'drop table' at some place, in any letter case *)
HasDropTable(q) ==
  /\ q.t = "string"
  /\ \E i \in 0..(Len(q.s) - Len(kwDropTable)) :
       \A j \in 1..Len(kwDropTable) : SameLetter(q.s[i + j], kwDropTable[j])

(* C1, as claimed: a query holding DROP TABLE in any letter case gets       *)
(* exactly the injection envelope and executeQuery is not invoked during    *)
(* the call, whatever the lifecycle state at its start.                     *)
C1_Original ==
  \A c \in Calls :
    SqlCall(c) /\ HasDropTable(calls[c].req.query) =>
      /\ calls[c].env = InjectionEnvelope
      /\ AdapterCalls(c) = 0

(* C1, amended: a query holding DROP TABLE in any letter case is never      *)
(* passed to the adapter; the call returns exactly the injection envelope   *)
(* unless it found no handle and the initialization it triggered failed; a  *)
(* call that found a handle does not invoke executeQuery at all, and one    *)
(* that found none invokes it at most once, on the initialization script.   *)
C1_DropTableRejected ==
  \A c \in Calls :
    SqlCall(c) /\ HasDropTable(calls[c].req.query) =>
      /\ calls[c].nExec = 0
      /\ calls[c].served = 0
      /\ ~calls[c].initThrew =>
           calls[c].out = "envelope" /\ calls[c].env = InjectionEnvelope
      /\ calls[c].initThrew => calls[c].absent
      /\ ~calls[c].absent => AdapterCalls(c) = 0
      /\ AdapterCalls(c) <= 1

(* a DROP TABLE query in mixed case, issued on an instance with no handle   *)
(* whose initialization ran the script through the adapter, is rejected     *)
C1_Witness ==
  \E c \in Calls :
    /\ SqlCall(c) /\ HasDropTable(calls[c].req.query)
    /\ calls[c].req.query.s = qDropMixed
    /\ calls[c].absent /\ IsServer /\ calls[c].nScript = 1
    /\ calls[c].env = InjectionEnvelope

(* C2: every envelope SqlTool.use returns has status 200 exactly when       *)
(* content.success is true.                                                 *)
C2_StatusIffSuccess ==
  \A c \in Calls :
    SqlCall(c) /\ calls[c].out = "envelope" =>
      /\ calls[c].env.status \in {200, 400}
      /\ (calls[c].env.status = 200) <=> (calls[c].env.content.success = TRUE)

(* one call answered 200 by the adapter, another answered 400 by it *)
C2_Witness ==
  /\ cfg.cls = "SqlTool"
  /\ \E c, d \in Calls :
       /\ Done(c) /\ calls[c].env.status = 200 /\ calls[c].env.content.success
       /\ Done(d) /\ calls[d].env.status = 400 /\ calls[d].served # 0

(* C3, as claimed: at most one handle is live at any moment. *)
C3_AtMostOneLiveHandle == Cardinality(LiveHandles) <= 1

(* C4, as claimed: no caller statement is executed on a handle before the   *)
(* initialization script has finished on it.                                *)
C4_ScriptBeforeQueries == ~early

(* C5, as claimed: when the script failed on the handle a call created,     *)
(* initialize() threw, the handle is released and the instance holds none.  *)
C5_FailedScriptReleasesHandle ==
  \A c \in Calls :
    /\ Done(c) /\ cfg.cls \in {"SqlTool", "SqliteTool"}
    /\ calls[c].created # 0 /\ hscript[calls[c].created] = "failed"
    => /\ calls[c].initThrew
       /\ hstate[calls[c].created] = "closed"
       /\ connection # calls[c].created

(* C6, as claimed: a missing or empty query gets 'Query is required' with   *)
(* no backend contact: no handle created, no script run, no adapter call.   *)
C6_ValidationNoBackend ==
  \A c \in Calls :
    /\ SqlCall(c)
    /\ calls[c].req.query.t = "undefined" \/ calls[c].req.query = Str(<<>>)
    => /\ calls[c].env = RequiredEnvelope
       /\ calls[c].created = 0
       /\ calls[c].nScript = 0
       /\ calls[c].nExec = 0

(* C7, as claimed: when the initialization a use call triggers fails, the   *)
(* call rejects instead of returning an envelope.                           *)
C7_InitFailureThrown ==
  \A c \in Calls :
    SqlCall(c) /\ calls[c].absent /\ calls[c].initThrew =>
      calls[c].out = "rejected"

(* the request raises an internal error in use: a query that is no string,  *)
(* or values that are no sequence reaching the parameter screen             *)
RaisesInternalError(r) ==
  /\ ~Falsy(r.query)
  /\ \/ r.query.t # "string"
     \/ r.values.t \notin {"array", "undefined"} /\ ~HasDropTable(r.query)

(* C8: SqlTool.use never rejects; an internal error raised while it         *)
(* processes a request comes back as status 400 with {error, success:false} *)
C8_ErrorsCaught ==
  \A c \in Calls :
    cfg.cls = "SqlTool" =>
      /\ calls[c].out # "rejected"
      /\ Done(c) /\ (RaisesInternalError(calls[c].req) \/ calls[c].initThrew) =>
           /\ calls[c].out = "envelope"
           /\ calls[c].env.status = 400
           /\ DOMAIN calls[c].env.content = {"error", "success"}
           /\ calls[c].env.content.success = FALSE
           /\ calls[c].nExec = 0

(* a query that is a number and values that are null were both answered 400 *)
C8_Witness ==
  /\ cfg.cls = "SqlTool"
  /\ \E c, d \in Calls :
       /\ Done(c) /\ calls[c].req.query.t = "number"
       /\ calls[c].env = Envelope(400, ErrorContent(MsgTypeError))
       /\ Done(d) /\ calls[d].req.values.t = "null"
       /\ calls[d].env = Envelope(400, ErrorContent(MsgTypeError))

(* C9, as claimed: a cleanup() call does not raise and leaves no handle. *)
C9_CleanupSafe ==
  [][cleanups' = cleanups + 1 => (connection' = 0 /\ ~cleanupRaised')]_vars

(* C10: in sequential use, a use call made after cleanup() (once or twice)  *)
(* returns an envelope; unless its initialization throws it creates a new   *)
(* handle, runs the script on it to the end, and only then serves a valid,  *)
(* trusted query, on that handle.                                           *)
C10_ReinitAfterCleanup ==
  \A c \in Calls :
    SqlCall(c) /\ calls[c].cleanupsBefore > 0 /\ calls[c].absent =>
      /\ calls[c].out = "envelope"
      /\ ~calls[c].initThrew =>
           /\ calls[c].created # 0
           /\ \A d \in Calls : d # c => calls[d].created # calls[c].created
           /\ cfg.script => /\ calls[c].nScript = 1
                            /\ hscript[calls[c].created] \in {"ok", "failed"}
           /\ ~Falsy(calls[c].req.query)
                /\ isTrustedQuery(calls[c].req.query, DefaultValues(calls[c].req.values)) = "trusted"
                => /\ calls[c].nExec = 1
                   /\ calls[c].served = calls[c].created
                   /\ cfg.script => calls[c].servedScript \in {"ok", "failed"}
                   /\ calls[c].env.status \in {200, 400}
                   /\ "rows" \in DOMAIN calls[c].env.content

(* use, cleanup, cleanup, use: the second call was served 200 on a second   *)
(* handle on which the script had run                                       *)
C10_Witness ==
  /\ cfg.cls = "SqlTool" /\ cfg.script
  /\ Done(1) /\ calls[1].cleanupsBefore = 0 /\ calls[1].created = 1
  /\ ~calls[1].initThrew
  /\ Done(2) /\ calls[2].cleanupsBefore = 2 /\ calls[2].absent
  /\ calls[2].created = 2 /\ calls[2].served = 2
  /\ calls[2].servedScript = "ok"
  /\ calls[2].env.status = 200

(* ======================= the data behind the adapters =================== *)
(* SpecData follows the statements of use calls into the database: one      *)
(* table users(id INTEGER PRIMARY KEY, name TEXT UNIQUE NOT NULL,           *)
(* age INTEGER), as the tests create it, and the statements the tests run.  *)
(* The instance has no initialization script here and is never cleaned up; *)
(* Spec and SpecSeq cover scripts and cleanup.                              *)

(* CREATE TABLE users (id INTEGER PRIMARY KEY, name TEXT UNIQUE ... *)
qCreateUsers ==
  <<"C","R","E","A","T","E"," ","T","A","B","L","E"," ","u","s","e","r","s",
    " ","(","i","d"," ","I","N","T","E","G","E","R"," ","P","R","I","M","A",
    "R","Y"," ","K","E","Y",","," ","n","a","m","e"," ","T","E","X","T"," ",
    "U","N","I","Q","U","E"," ","N","O","T"," ","N","U","L","L",","," ","a",
    "g","e"," ","I","N","T","E","G","E","R",")">>

(* INSERT INTO users (name, age) VALUES (?, ?) *)
qInsertUser ==
  <<"I","N","S","E","R","T"," ","I","N","T","O"," ","u","s","e","r","s"," ",
    "(","n","a","m","e",","," ","a","g","e",")"," ","V","A","L","U","E","S",
    " ","(","?",","," ","?",")">>

(* INSERT INTO users (name, age) VALUES ($1, $2) *)
qInsertUserPg ==
  <<"I","N","S","E","R","T"," ","I","N","T","O"," ","u","s","e","r","s"," ",
    "(","n","a","m","e",","," ","a","g","e",")"," ","V","A","L","U","E","S",
    " ","(","$","1",","," ","$","2",")">>

(* INSERT INTO users (name, age) VALUES ($1, $2) RETURNING all *)
qInsertReturning == qInsertUserPg \o <<" ","R","E","T","U","R","N","I","N","G"," ","*">>

(* SELECT all FROM users *)
qSelectUsers ==
  <<"S","E","L","E","C","T"," ","*"," ","F","R","O","M"," ","u","s","e","r",
    "s">>

(* SELECT COUNT(all) as count FROM users *)
qCountUsers ==
  <<"S","E","L","E","C","T"," ","C","O","U","N","T","(","*",")"," ","a","s",
    " ","c","o","u","n","t"," ","F","R","O","M"," ","u","s","e","r","s">>

(* SELECT 1 as x *)
qSelectOne ==
  <<"S","E","L","E","C","T"," ","1"," ","a","s"," ","x">>

(* SELECT 1 as x -- one *)
qSelectOneComment ==
  <<"S","E","L","E","C","T"," ","1"," ","a","s"," ","x"," ","-","-"," ","o",
    "n","e">>

(* UPDATE users SET age = ? WHERE name = ? *)
qUpdateAge ==
  <<"U","P","D","A","T","E"," ","u","s","e","r","s"," ","S","E","T"," ","a",
    "g","e"," ","="," ","?"," ","W","H","E","R","E"," ","n","a","m","e"," ",
    "="," ","?">>

(* UPDATE users SET age = $1 WHERE name = $2 *)
qUpdateAgePg ==
  <<"U","P","D","A","T","E"," ","u","s","e","r","s"," ","S","E","T"," ","a",
    "g","e"," ","="," ","$","1"," ","W","H","E","R","E"," ","n","a","m","e",
    " ","="," ","$","2">>

(* DELETE FROM users WHERE name = ? *)
qDeleteUser ==
  <<"D","E","L","E","T","E"," ","F","R","O","M"," ","u","s","e","r","s"," ",
    "W","H","E","R","E"," ","n","a","m","e"," ","="," ","?">>

(* DELETE FROM users WHERE name = $1 *)
qDeleteUserPg ==
  <<"D","E","L","E","T","E"," ","F","R","O","M"," ","u","s","e","r","s"," ",
    "W","H","E","R","E"," ","n","a","m","e"," ","="," ","$","1">>

(* the statement the backend runs for a query text *)
Parse(q) ==
  CASE q = qCreateUsers -> "create"
    [] q \in {qInsertUser, qInsertUserPg, qInsertReturning} -> "insert"
    [] q = qSelectUsers -> "select"
    [] q = qCountUsers -> "count"
    [] q \in {qSelectOne, qSelectOneComment} -> "one"
    [] q \in {qUpdateAge, qUpdateAgePg} -> "update"
    [] q \in {qDeleteUser, qDeleteUserPg} -> "delete"

vAnn == <<"A","n","n">>
vBob == <<"B","o","b">>
vCy == <<"C","y">>
(* a name holding '; drop' in lower case *)
vDropLower == <<"x",";"," ","d","r","o","p">>

(* values bound by the driver: a JavaScript value becomes a column value   *)
(* of SQL type INTEGER, TEXT or NULL, and comes back as a JavaScript value *)
SqlInteger(n) == [cls |-> "INTEGER", s |-> <<>>, n |-> n]
SqlText(s) == [cls |-> "TEXT", s |-> s, n |-> 0]
SqlNull == [cls |-> "NULL", s |-> <<>>, n |-> 0]

bindValue(v) ==
  CASE v.t = "number" -> SqlInteger(v.n)
    [] v.t = "string" -> SqlText(v.s)
    [] OTHER -> SqlNull

columnValue(x) ==
  CASE x.cls = "INTEGER" -> Num(x.n)
    [] x.cls = "TEXT" -> Str(x.s)
    [] OTHER -> Null

(* a stored row as the driver returns it *)
RowObject(r) ==
  [id |-> Num(r.id), name |-> columnValue(r.name), age |-> columnValue(r.age)]

RECURSIVE RowsById(_)
RowsById(rows) ==
  IF rows = {} THEN <<>>
  ELSE LET r == CHOOSE x \in rows : \A y \in rows : x.id <= y.id
       IN <<RowObject(r)>> \o RowsById(rows \ {r})

MaxRowId(rows) ==
  IF rows = {} THEN 0
  ELSE (CHOOSE x \in rows : \A y \in rows : x.id >= y.id).id

(* the error the backend raises for a condition: its code and its message  *)
NativeError(type, cond) ==
  CASE type = "sqlite" ->
         CASE cond = "notable" ->
                [code |-> "SQLITE_ERROR", message |-> "no such table: users"]
           [] cond = "exists" ->
                [code |-> "SQLITE_ERROR",
                 message |-> "table users already exists"]
           [] cond = "unique" ->
                [code |-> "SQLITE_CONSTRAINT_UNIQUE",
                 message |-> "UNIQUE constraint failed: users.name"]
           [] cond = "notnull" ->
                [code |-> "SQLITE_CONSTRAINT_NOTNULL",
                 message |-> "NOT NULL constraint failed: users.name"]
           [] OTHER ->
                [code |-> "SQLITE_READONLY",
                 message |-> "attempt to write a readonly database"]
    [] type = "postgresql" ->
         CASE cond = "notable" ->
                [code |-> "42P01",
                 message |-> "relation \"users\" does not exist"]
           [] cond = "exists" ->
                [code |-> "42P07",
                 message |-> "relation \"users\" already exists"]
           [] cond = "unique" ->
                [code |-> "23505",
                 message |-> "duplicate key value violates unique constraint"]
           [] cond = "notnull" ->
                [code |-> "23502",
                 message |-> "null value in column \"name\" violates not-null constraint"]
           [] OTHER ->
                [code |-> "25006",
                 message |-> "cannot execute statement in a read-only transaction"]
    [] OTHER ->
         CASE cond = "notable" ->
                [code |-> "ER_NO_SUCH_TABLE",
                 message |-> "Table 'users' doesn't exist"]
           [] cond = "exists" ->
                [code |-> "ER_TABLE_EXISTS_ERROR",
                 message |-> "Table 'users' already exists"]
           [] cond = "unique" ->
                [code |-> "ER_DUP_ENTRY",
                 message |-> "Duplicate entry for key 'users.name'"]
           [] cond = "notnull" ->
                [code |-> "ER_BAD_NULL_ERROR",
                 message |-> "Column 'name' cannot be null"]
           [] OTHER ->
                [code |-> "ER_OPTION_PREVENTS_STATEMENT",
                 message |-> "The MySQL server is running with the --read-only option"]

NoError == [code |-> "", message |-> ""]

(* what a statement does to the database S: cond is "ok" or the condition  *)
(* that fails it; a failed statement changes nothing                        *)
Ran(S, rows, changes, insertId) ==
  [cond |-> "ok", store |-> S, rows |-> rows, changes |-> changes,
   insertId |-> insertId]

Fails(S, cond) ==
  [cond |-> cond, store |-> S, rows |-> <<>>, changes |-> 0, insertId |-> 0]

Matching(S, name) == { r \in S.rows : r.name = bindValue(name) }

(* values bound to the placeholders in reverse order *)
Param_Reversed(a, i) ==
  IF Len(a) + 1 - i \in DOMAIN a THEN a[Len(a) + 1 - i] ELSE Null

(* the i-th bound value; a placeholder without a value is NULL *)
Param(a, i) == IF i <= Len(a) THEN a[i] ELSE Null

Execute(q, values, S) ==
  LET kind == Parse(q)
      a == values.a
  IN
  CASE kind = "one" -> Ran(S, <<[x |-> Num(1)]>>, 0, 0)
    [] kind = "create" ->
         IF S.exists THEN Fails(S, "exists")
         ELSE IF S.readonly THEN Fails(S, "readonly")
         ELSE Ran([S EXCEPT !.exists = TRUE], <<>>, 0, 0)
    [] ~S.exists -> Fails(S, "notable")
    [] kind = "select" -> Ran(S, RowsById(S.rows), 0, 0)
    [] kind = "count" ->
         Ran(S, <<[count |-> Num(Cardinality(S.rows))]>>, 0, 0)
    [] S.readonly -> Fails(S, "readonly")
    [] kind = "insert" ->
         IF bindValue(Param(a, 1)) = SqlNull THEN Fails(S, "notnull")
         ELSE IF Matching(S, Param(a, 1)) # {} THEN Fails(S, "unique")
         ELSE LET id == MaxRowId(S.rows) + 1
                  row == [id |-> id, name |-> bindValue(Param(a, 1)),
                          age |-> bindValue(Param(a, 2))]
              IN Ran([S EXCEPT !.rows = @ \cup {row}],
                     IF q = qInsertReturning THEN <<RowObject(row)>> ELSE <<>>,
                     1, id)
    [] kind = "update" ->
         Ran([S EXCEPT !.rows =
                { IF r \in Matching(S, Param(a, 2))
                  THEN [r EXCEPT !.age = bindValue(Param(a, 1))] ELSE r : r \in @ }],
             <<>>, Cardinality(Matching(S, Param(a, 2))), 0)
    [] OTHER ->
         Ran([S EXCEPT !.rows = @ \ Matching(S, Param(a, 1))],
             <<>>, Cardinality(Matching(S, Param(a, 1))), 0)

(* ------------------- the adapters on a native result -------------------- *)
MsgReadonly == "attempt to write a readonly database"

(* executePostgresQuery giving every result an error field *)
executePostgresQuery_ErrorField(x) ==
  IF x.cond = "ok"
  THEN [rows |-> x.rows, affectedRows |-> Len(x.rows), success |-> TRUE,
        error |-> ""]
  ELSE FailedResult(NativeError("postgresql", x.cond).message)

(* SqlTool.executePostgresQuery: the result of sql.unsafe is the array of  *)
(* returned rows, empty for a statement that returns none                  *)
executePostgresQuery(x) ==
  IF x.cond = "ok"
  THEN [rows |-> x.rows, affectedRows |-> Len(x.rows), success |-> TRUE]
  ELSE FailedResult(NativeError("postgresql", x.cond).message)

(* SqlTool.executeMysqlQuery: execute resolves to the array of rows for a  *)
(* statement that returns rows and to a header {affectedRows, insertId}    *)
(* for one that does not                                                   *)
ReturnsRows(q) ==
  Parse(q) \in {"select", "count", "one"} \/ q = qInsertReturning

executeMysqlQuery(q, x) ==
  IF x.cond = "ok"
  THEN IF ReturnsRows(q)
       THEN [rows |-> x.rows, affectedRows |-> 0, success |-> TRUE,
             lastInsertId |-> Undefined]
       ELSE [rows |-> <<>>, affectedRows |-> x.changes, success |-> TRUE,
             lastInsertId |-> Num(x.insertId)]
  ELSE FailedResult(NativeError("mysql", x.cond).message)

(* sqlite keeps, per connection, the row count of the last INSERT, UPDATE  *)
(* or DELETE and the rowid of the last INSERT                              *)
NewConn == [changes |-> 0, lastInsertRowId |-> 0]

ConnAfter(k, q, x) ==
  IF x.cond # "ok" THEN k
  ELSE CASE Parse(q) = "insert" ->
              [changes |-> x.changes, lastInsertRowId |-> x.insertId]
         [] Parse(q) \in {"update", "delete"} -> [k EXCEPT !.changes = x.changes]
         [] OTHER -> k

(* `!values` *)
NoValues(values) == values.t \in {"undefined", "null"}

hasParams(q) == includes(q, qMark)

(* executeSqliteQuery without its catch blocks: a statement that throws is *)
(* reported like one that ran                                               *)
executeSqliteQuery_NoCatch(q, values, x, k) ==
  IF isSelect(q)
  THEN [rows |-> x.rows, affectedRows |-> Len(x.rows), success |-> TRUE]
  ELSE [rows |-> <<>>, affectedRows |-> k.changes, success |-> TRUE,
        lastInsertId |-> Num(k.lastInsertRowId)]

(* SqlTool.executeSqliteQuery; k is the connection after the statement *)
executeSqliteQuery(q, values, x, k) ==
  IF hasParams(q) /\ NoValues(values) THEN FailedResult(MsgParams)
  ELSE IF x.cond # "ok"
  THEN IF ~isSelect(q) /\ NativeError("sqlite", x.cond).code = "SQLITE_READONLY"
       THEN FailedResult(MsgReadonly)
       ELSE FailedResult(NativeError("sqlite", x.cond).message)
  ELSE IF isSelect(q)
  THEN [rows |-> x.rows, affectedRows |-> Len(x.rows), success |-> TRUE]
  ELSE [rows |-> <<>>, affectedRows |-> k.changes, success |-> TRUE,
        lastInsertId |-> Num(k.lastInsertRowId)]

(* SqliteTool.use lines 58-128 *)
SqliteToolResult(q, values, x, k) ==
  IF hasParams(q) /\ NoValues(values) THEN Envelope(400, ErrorContent(MsgParams))
  ELSE IF x.cond # "ok"
  THEN Envelope(400, ErrorContent(NativeError("sqlite", x.cond).message))
  ELSE IF isSelect(q)
  THEN Envelope(200, [rows |-> x.rows, affectedRows |-> Len(x.rows),
                      success |-> TRUE])
  ELSE Envelope(200, [affectedRows |-> k.changes, rows |-> <<>>,
                      success |-> TRUE,
                      lastInsertId |-> Num(k.lastInsertRowId)])

(* ------------------------- SpecData: the state -------------------------- *)
MaxData == 2

DataCalls == 1..MaxData

DataConfigs ==
  { k \in Configs : k.cls \in {"SqlTool", "SqliteTool"} /\ ~k.script }

(* the requests of the tests, with `?` placeholders and with the `$n`     *)
(* placeholders of postgresql; a call holds the position of its request    *)
(* in this list                                                             *)
DataRequests ==
  << [query |-> Str(qCreateUsers),      values |-> NoArr("undefined")],
     [query |-> Str(qSelectUsers),      values |-> NoArr("undefined")],
     [query |-> Str(qCountUsers),       values |-> NoArr("undefined")],
     [query |-> Str(qSelectOne),        values |-> NoArr("undefined")],
     [query |-> Str(qSelectOneComment), values |-> NoArr("undefined")],
     [query |-> Str(qInsertUser), values |-> Arr(<<Str(vAnn), Num(30)>>)],
     [query |-> Str(qInsertUser), values |-> Arr(<<Str(vBob), Null>>)],
     [query |-> Str(qInsertUser), values |-> Arr(<<Null, Num(30)>>)],
     [query |-> Str(qUpdateAge),  values |-> Arr(<<Num(31), Str(vAnn)>>)],
     [query |-> Str(qDeleteUser), values |-> Arr(<<Str(vAnn)>>)],
     [query |-> Str(qInsertUserPg), values |-> Arr(<<Str(vAnn), Num(30)>>)],
     [query |-> Str(qInsertUserPg), values |-> Arr(<<Str(vBob), Null>>)],
     [query |-> Str(qInsertUserPg), values |-> Arr(<<Null, Num(30)>>)],
     [query |-> Str(qUpdateAgePg),  values |-> Arr(<<Num(31), Str(vAnn)>>)],
     [query |-> Str(qDeleteUserPg), values |-> Arr(<<Str(vAnn)>>)],
     [query |-> Str(qDeleteUser),   values |-> Arr(<<Str(vDropLower)>>)],
     [query |-> Str(qDeleteUserPg), values |-> Arr(<<Str(vDropLower)>>)],
     [query |-> Str(qInsertReturning), values |-> Arr(<<Str(vAnn), Num(30)>>)] >>

Request(i) == DataRequests[i]

qDollar == <<"$">>

(* the requests written for a backend kind *)
RequestsFor ==
  [type \in {"postgresql", "mysql", "sqlite"} |->
     { i \in DOMAIN DataRequests :
         IF type = "postgresql" THEN ~hasParams(Request(i).query.s)
         ELSE ~includes(Request(i).query.s, qDollar) }]

(* SqlTool.use lines 238 and 250 on each request: isTrustedQuery(query,    *)
(* values) with the default of values                                      *)
TrustScreen ==
  [i \in DOMAIN DataRequests |->
     isTrustedQuery(Request(i).query, DefaultValues(Request(i).values))]

IdleData == [pc |-> "idle", req |-> 0, env |-> NoEnvelope]

(* a database file or a server database outlives the instance: its table   *)
(* may exist, with a row in it, and its storage may be read-only; a memory *)
(* database is new                                                          *)
StoredCy == [id |-> 1, name |-> SqlText(vCy), age |-> SqlInteger(40)]

InitialStores ==
  IF cfg.type = "sqlite" /\ ~cfg.file THEN {EmptyStore}
  ELSE { [exists |-> e, readonly |-> ro, rows |-> rs] :
           e \in BOOLEAN, ro \in BOOLEAN, rs \in {{}, {StoredCy}} }
         \ { S \in [exists : {FALSE}, readonly : BOOLEAN,
                     rows : {{StoredCy}}] : TRUE }

DataInit ==
  /\ cfg \in DataConfigs
  /\ connection = 0
  /\ hstate = <<>>
  /\ hscript = <<>>
  /\ calls = <<>>
  /\ initdb = "none"
  /\ checkedOut = 0
  /\ cleanups = 0
  /\ cleanupRaised = FALSE
  /\ early = FALSE
  /\ store \in InitialStores
  /\ conn = <<>>
  /\ dcalls = [c \in DataCalls |-> IdleData]
  /\ tool = "none"
  /\ tcall = IdleTool

DataDone(rec, env) == [rec EXCEPT !.pc = "done", !.env = env]

(* use from the validation on, on handle h of the handles hs with the      *)
(* connections ks: SqlTool.use lines 238-264, SqliteTool.use lines 46-128. *)
(* The embedded backend runs the statement at once; a server gets it and   *)
(* answers later.                                                          *)
DataBody(c, rec, h, hs, ks) ==
  LET query == Request(rec.req).query
      given == Request(rec.req).values
      values == IF cfg.cls = "SqlTool" THEN DefaultValues(given) ELSE given
      screen == IF cfg.cls = "SqlTool" THEN TrustScreen[rec.req]
                ELSE "trusted"
      runs == ~(hasParams(query.s) /\ NoValues(values))
      x == IF runs THEN Execute(query.s, values, store)
           ELSE Fails(store, "none")
      k == ConnAfter(ks[h], query.s, x)
      env == IF cfg.cls = "SqlTool"
             THEN UseEnvelope(executeSqliteQuery(query.s, values, x, k))
             ELSE SqliteToolResult(query.s, values, x, k)
  IN
  /\ connection' = h
  /\ hstate' = hs
  /\ IF Falsy(query)
     THEN /\ dcalls' = [dcalls EXCEPT ![c] =
                          DataDone(rec, Envelope(400, ErrorContent(MsgRequired)))]
          /\ conn' = ks
          /\ UNCHANGED store
     ELSE IF screen = "untrusted"
     THEN /\ dcalls' = [dcalls EXCEPT ![c] =
                          DataDone(rec, Envelope(400, ErrorContent(MsgInjection)))]
          /\ conn' = ks
          /\ UNCHANGED store
     ELSE IF screen = "throws"
     THEN /\ dcalls' = [dcalls EXCEPT ![c] =
                          DataDone(rec, Envelope(400, ErrorContent(MsgTypeError)))]
          /\ conn' = ks
          /\ UNCHANGED store
     ELSE IF cfg.type = "sqlite"
     THEN /\ dcalls' = [dcalls EXCEPT ![c] = DataDone(rec, env)]
          /\ conn' = [ks EXCEPT ![h] = k]
          /\ store' = x.store
     ELSE /\ dcalls' = [dcalls EXCEPT ![c] = [rec EXCEPT !.pc = "exec"]]
          /\ conn' = ks
          /\ UNCHANGED store

(* initialize awaits before it has a handle: mkdir for a database file     *)
(* (SqlTool.initializeSqlite, SqliteTool.initialize), createPool for mysql *)
AwaitsBeforeHandle == cfg.file \/ cfg.type = "mysql"

DataStart(c, r) ==
  /\ dcalls[c].pc = "idle"
  /\ \A d \in 1..(c - 1) : dcalls[d].pc # "idle"
  /\ LET rec == [dcalls[c] EXCEPT !.req = r]
     IN IF connection # 0
        THEN DataBody(c, rec, connection, hstate, conn)
        ELSE IF AwaitsBeforeHandle
        THEN /\ dcalls' = [dcalls EXCEPT ![c] = [rec EXCEPT !.pc = "init"]]
             /\ UNCHANGED <<connection, hstate, conn, store>>
        ELSE DataBody(c, rec, Len(hstate) + 1,
                      Append(hstate, "live"), Append(conn, NewConn))
  /\ UNCHANGED <<cfg, hscript, calls, initdb, checkedOut, cleanups,
                 cleanupRaised, early, tvars>>

(* mkdir or createPool is over: the handle is made and assigned, and use   *)
(* goes on with whatever handle the instance holds                         *)
DataInitDone(c) ==
  /\ dcalls[c].pc = "init"
  /\ DataBody(c, dcalls[c], Len(hstate) + 1,
              Append(hstate, "live"), Append(conn, NewConn))
  /\ UNCHANGED <<cfg, hscript, calls, initdb, checkedOut, cleanups,
                 cleanupRaised, early, tvars>>

(* the server runs the statement and the adapter's await resumes *)
DataReply(c) ==
  /\ dcalls[c].pc = "exec"
  /\ LET query == Request(dcalls[c].req).query
         values == DefaultValues(Request(dcalls[c].req).values)
         x == Execute(query.s, values, store)
         result == IF cfg.type = "postgresql"
                   THEN executePostgresQuery(x)
                   ELSE executeMysqlQuery(query.s, x)
     IN /\ store' = x.store
        /\ dcalls' = [dcalls EXCEPT ![c] = DataDone(@, UseEnvelope(result))]
  /\ UNCHANGED <<cfg, connection, hstate, conn, hscript, calls, initdb,
                 checkedOut, cleanups, cleanupRaised, early, tvars>>

DataNext ==
  \/ \E c \in DataCalls, r \in RequestsFor[cfg.type] : DataStart(c, r)
  \/ \E c \in DataCalls : DataInitDone(c)
  \/ \E c \in DataCalls : DataReply(c)

SpecData == DataInit /\ [][DataNext]_vars

(* ------------------------ properties of the data ------------------------ *)
DReq(c) == Request(dcalls'[c].req)

(* the step in which call c returns; its statement, if it runs at all on   *)
(* the embedded backend or is answered by a server, runs in this step       *)
Returns(c) == dcalls[c].pc # "done" /\ dcalls'[c].pc = "done"

DKind(c) == Parse(DReq(c).query.s)

Ok200(env) ==
  /\ env.status = 200
  /\ "success" \in DOMAIN env.content
  /\ env.content.success

(* C11: on the embedded backend, whatever other use calls are in flight, a *)
(* use call that inserts a row whose name is not stored yet into the        *)
(* existing, writable table reports status 200 and success=true and adds    *)
(* exactly its row; a count query reports the number of rows stored. So N   *)
(* concurrent inserts of distinct rows all succeed and the count after     *)
(* them is N more than before.                                              *)
C11_ConcurrentInserts ==
  [][\A c \in DataCalls :
       (cfg.type = "sqlite" /\ Returns(c) /\ store.exists) =>
         /\ ( /\ DKind(c) = "insert"
              /\ ~store.readonly
              /\ DReq(c).values.a[1] # Null
              /\ Matching(store, DReq(c).values.a[1]) = {} )
            => /\ Ok200(dcalls'[c].env)
               /\ Cardinality(store'.rows) = Cardinality(store.rows) + 1
               /\ store.rows \subseteq store'.rows
               /\ Matching(store', DReq(c).values.a[1]) # {}
         /\ DKind(c) = "count"
            => /\ Ok200(dcalls'[c].env)
               /\ dcalls'[c].env.content.rows =
                    <<[count |-> Num(Cardinality(store.rows))]>>]_vars

(* two inserts were in flight together on a database file, each made its   *)
(* own handle, and both rows are stored                                     *)
C11_Witness ==
  /\ cfg.type = "sqlite"
  /\ Len(hstate) = 2
  /\ \A c \in {1, 2} :
       /\ dcalls[c].pc = "done"
       /\ Parse(Request(dcalls[c].req).query.s) = "insert"
       /\ Ok200(dcalls[c].env)
  /\ Cardinality({ r \in store.rows : r.name \in {SqlText(vAnn), SqlText(vBob)} }) = 2

(* a call that has returned, its request and its statement *)
Returned(c) == dcalls[c].pc = "done"

DataReq(c) == Request(dcalls[c].req)

DataKind(c) == Parse(DataReq(c).query.s)

(* C12, as claimed: on every backend kind a successful row-returning       *)
(* statement has affectedRows equal to the number of rows returned, and    *)
(* SELECT 1 as x yields exactly {status:200, content:{rows:[{x:1}],         *)
(* affectedRows:1, success:true}}.                                          *)
C12_RowsCounted ==
  \A c \in DataCalls :
    (Returned(c) /\ Ok200(dcalls[c].env) /\ ReturnsRows(DataReq(c).query.s)) =>
      /\ dcalls[c].env.content.affectedRows = Len(dcalls[c].env.content.rows)
      /\ DataReq(c).query.s = qSelectOne =>
           dcalls[c].env =
             Envelope(200, [rows |-> <<[x |-> Num(1)]>>, affectedRows |-> 1,
                            success |-> TRUE])

Mutation(kind) == kind \in {"insert", "update", "delete"}

(* C13, as claimed: on every backend kind a successful mutation statement  *)
(* reports status 200 and success=true, rows empty, and affectedRows equal *)
(* to the number of rows the backend changed for that statement (0 when it *)
(* touches no row).                                                         *)
C13_MutationCounted ==
  [][\A c \in DataCalls :
       (Returns(c) /\ Mutation(DKind(c))) =>
         LET x == Execute(DReq(c).query.s, DReq(c).values, store)
         IN x.cond = "ok" =>
              /\ Ok200(dcalls'[c].env)
              /\ dcalls'[c].env.content.rows = <<>>
              /\ dcalls'[c].env.content.affectedRows = x.changes]_vars

Failed400(env) ==
  /\ env.status = 400
  /\ {"success", "error"} \subseteq DOMAIN env.content
  /\ ~env.content.success
  /\ env.content.error # ""

(* C14: a use call that returns a failure leaves the stored data as it     *)
(* was. On the embedded backend, inserting a name that is already stored   *)
(* (UNIQUE) or a null name (NOT NULL) returns status 400 with              *)
(* success=false and a non-empty error and changes no row, and a select     *)
(* returns exactly the rows that are stored.                                *)
C14_FailedInsertKeepsData ==
  [][\A c \in DataCalls :
       Returns(c) =>
         /\ ~Ok200(dcalls'[c].env) => store' = store
         /\ ( /\ cfg.type = "sqlite"
              /\ DKind(c) = "insert"
              /\ store.exists
              /\ \/ DReq(c).values.a[1] = Null
                 \/ Matching(store, DReq(c).values.a[1]) # {} )
            => Failed400(dcalls'[c].env) /\ store' = store
         /\ (cfg.type = "sqlite" /\ DKind(c) = "select" /\ store.exists)
            => /\ Ok200(dcalls'[c].env)
               /\ dcalls'[c].env.content.rows = RowsById(store.rows)]_vars

(* a name was inserted, inserting it again failed, and it is stored once *)
C14_Witness ==
  /\ cfg.type = "sqlite"
  /\ Returned(1) /\ DataKind(1) = "insert" /\ Ok200(dcalls[1].env)
  /\ Returned(2) /\ dcalls[2].req = dcalls[1].req /\ Failed400(dcalls[2].env)
  /\ Cardinality(Matching(store, DataReq(1).values.a[1])) = 1

(* C15: in SqlTool, on every backend kind, a caller statement the backend  *)
(* rejects (missing table, constraint, read-only storage) is returned as   *)
(* status 400 with content {rows: [], affectedRows: 0, success: false,      *)
(* error: the backend's message}; the instance still holds a live handle,  *)
(* and a statement the backend accepts is answered with status 200,         *)
(* whatever failed before it.                                               *)
C15_BackendErrorsReturned ==
  [][\A c \in DataCalls :
       (cfg.cls = "SqlTool" /\ Returns(c)) =>
         LET x == Execute(DReq(c).query.s, DReq(c).values, store)
         IN /\ x.cond # "ok" =>
                 /\ dcalls'[c].env =
                      Envelope(400, [rows |-> <<>>, affectedRows |-> 0,
                                     success |-> FALSE,
                                     error |-> NativeError(cfg.type, x.cond).message])
                 /\ connection' # 0
                 /\ hstate'[connection'] = "live"
            /\ x.cond = "ok" => Ok200(dcalls'[c].env)]_vars

(* a statement on a missing table failed, and a later call was served *)
C15_Witness ==
  /\ cfg.cls = "SqlTool"
  /\ Returned(1) /\ DataKind(1) = "select" /\ Failed400(dcalls[1].env)
  /\ dcalls[1].env.content.error = NativeError(cfg.type, "notable").message
  /\ Returned(2) /\ DataKind(2) = "create" /\ Ok200(dcalls[2].env)
  /\ connection # 0

FailureConditions == {"notable", "exists", "unique", "notnull", "readonly"}

(* the messages of the backends, as they come *)
NativeMessages ==
  { NativeError(type, cond).message :
      type \in {"postgresql", "mysql", "sqlite"}, cond \in FailureConditions }

(* C16, as claimed: on every backend kind a not-null violation is returned *)
(* with a fixed message that is none of the backends' own messages, a      *)
(* write to read-only storage with the fixed message 'attempt to write a   *)
(* readonly database', and every other backend error with the backend's    *)
(* own message.                                                             *)
C16_FailureMapping ==
  [][\A c \in DataCalls :
       Returns(c) =>
         LET x == Execute(DReq(c).query.s, DReq(c).values, store)
             env == dcalls'[c].env
         IN x.cond # "ok" =>
              /\ Failed400(env)
              /\ x.cond = "notnull" => env.content.error \notin NativeMessages
              /\ x.cond = "readonly" => env.content.error = MsgReadonly
              /\ x.cond \notin {"notnull", "readonly"} =>
                   env.content.error = NativeError(cfg.type, x.cond).message]_vars

textFragments ==
  { <<";"," ","d","r","o","p">>, <<"-","-">>, <<"/","*">>, <<"*","/">> }

HasFragment(q) == \E f \in textFragments : includes(toLowerCase(q), f)

(* C17, as claimed: SqlTool.use answers a query whose text contains        *)
(* '; drop', '--', a comment opener or a comment closer, in any letter     *)
(* case, with status 400 and the error 'Potential SQL injection detected', *)
(* whatever the values are.                                                 *)
C17_TextFragmentsRejected ==
  \A c \in DataCalls :
    (cfg.cls = "SqlTool" /\ Returned(c) /\ HasFragment(DataReq(c).query.s)) =>
      dcalls[c].env = InjectionEnvelope

(* the content of an envelope is a QueryResult of an adapter *)
IsQueryResult(content) == {"rows", "affectedRows", "success"} \subseteq DOMAIN content

HasLastInsertId(content) ==
  /\ "lastInsertId" \in DOMAIN content
  /\ content.lastInsertId # Undefined

(* C19, as claimed: a result carries lastInsertId only when the statement  *)
(* of that call inserted a row: the result of an UPDATE, a DELETE, a       *)
(* CREATE TABLE or a row-returning statement carries none, so no result    *)
(* carries the identifier of an earlier call's insert.                      *)
C19_LastInsertIdOwn ==
  \A c \in DataCalls :
    (Returned(c) /\ Ok200(dcalls[c].env) /\ DataKind(c) # "insert") =>
      ~HasLastInsertId(dcalls[c].env.content)

Message(m) == [t |-> "string", text |-> m]

ToolAwait(p, at) == [pc |-> at, params |-> p]

ToolDone(p, env) == [pc |-> "done", params |-> p, out |-> "envelope", env |-> env]

(* use threw: the promise it returned rejects *)
ToolThrew(p) ==
  [pc |-> "done", params |-> p, out |-> "rejected", env |-> [status |-> 0]]

(* how an awaited file-system primitive ends: done, or an error with a code *)
FileOutcomes == {"ok", "ENOENT", "EACCES"}

(* ---------------------------- FileSystemTool ---------------------------- *)
pIndexHtml == <<"a", ".", "H", "T", "M", "L">>
pData == <<"d", "a", "t", "a">>

(* path.extname: from the last dot on, or nothing *)
extname(p) ==
  IF \E i \in 2..Len(p) : p[i] = "."
  THEN LET i == CHOOSE k \in 2..Len(p) :
                  p[k] = "." /\ \A j \in (k + 1)..Len(p) : p[j] # "."
       IN SubSeq(p, i, Len(p))
  ELSE <<>>

extHtml == <<".", "h", "t", "m", "l">>
extCss == <<".", "c", "s", "s">>
extJs == <<".", "j", "s">>

(* FileSystemTool.getMimeType, on the first entries of its table *)
getMimeType(filePath) ==
  LET ext == toLowerCase(extname(filePath))
  IN CASE ext = extHtml -> "text/html"
       [] ext = extCss -> "text/css"
       [] ext = extJs -> "application/javascript"
       [] OTHER -> "application/octet-stream"

FileSystemParams ==
  [action : {"read", "list", "write", "remove"}, path : {pIndexHtml, pData},
   content : {Message("text")}]

(* FileSystemTool.use up to the await of its action *)
FileSystemStart(p) ==
  IF p.action \in {"read", "list", "write"} THEN ToolAwait(p, p.action)
  ELSE ToolThrew(p)

(* FileSystemTool.readFile after `await fs.readFile` *)
readFile(p, outcome) ==
  CASE outcome = "ok" ->
         ToolDone(p, [status |-> 200, content |-> Message("bytes"),
                      mimeType |-> getMimeType(p.path)])
    [] outcome = "ENOENT" -> ToolDone(p, [status |-> 404])
    [] OTHER -> ToolThrew(p)

(* FileSystemTool.listFiles after `await fs.readdir` *)
listFiles(p, outcome) ==
  CASE outcome = "ok" -> ToolDone(p, [status |-> 200, files |-> <<pData>>])
    [] outcome = "ENOENT" -> ToolDone(p, [status |-> 404])
    [] OTHER -> ToolThrew(p)

(* FileSystemTool.writeFile after `await fs.writeFile` *)
writeFile(p, outcome) ==
  IF outcome = "ok"
  THEN ToolDone(p, [status |-> 200, message |-> "File written successfully"])
  ELSE ToolDone(p, [status |-> 500,
                    message |-> "Error writing file: " \o outcome])

FileSystemResume(call, outcome) ==
  CASE call.pc = "read" -> readFile(call.params, outcome)
    [] call.pc = "list" -> listFiles(call.params, outcome)
    [] OTHER -> writeFile(call.params, outcome)

(* ----------------------------- MustacheTool ----------------------------- *)
MustacheParams ==
  [templatePath : {Undefined, Str(pIndexHtml)},
   data : {Undefined, [t |-> "object", s |-> <<>>, n |-> 0]},
   partialsMap : BOOLEAN]

(* MustacheTool.use lines 119-127: the check of the parameters *)
MustacheStart(p) ==
  IF Falsy(p.templatePath) \/ Falsy(p.data) THEN ToolThrew(p)
  ELSE ToolAwait(p, "template")

(* MustacheTool.use lines 127-141: loadTemplate and loadPartials throw on   *)
(* every failure, and use rethrows                                          *)
MustacheResume(call, outcome) ==
  IF outcome # "ok" THEN ToolThrew(call.params)
  ELSE IF call.pc = "template" /\ call.params.partialsMap
  THEN ToolAwait(call.params, "partial")
  ELSE ToolDone(call.params,
                [status |-> 200, renderedContent |-> Message("rendered")])

(* ------------------------------- JWTTool -------------------------------- *)
RECURSIVE split(_, _)
split(s, sep) ==
  IF \E i \in 1..Len(s) : s[i] = sep
  THEN LET i == CHOOSE k \in 1..Len(s) :
                  s[k] = sep /\ \A j \in 1..(k - 1) : s[j] # sep
       IN <<SubSeq(s, 1, i - 1)>> \o split(SubSeq(s, i + 1, Len(s)), sep)
  ELSE <<s>>

RECURSIVE join(_, _)
join(parts, sep) ==
  IF parts = <<>> THEN <<>>
  ELSE IF Len(parts) = 1 THEN parts[1]
  ELSE parts[1] \o <<sep>> \o join(Tail(parts), sep)

substring(s, n) == SubSeq(s, n + 1, Len(s))

(* the tool's secretKey, and another key *)
secretKey == "k"
otherKey == "o"

(* jsonwebtoken: a token is header.payload.signature; the payload is one    *)
(* letter here and the signature is the key                                 *)
jwtSign(payload, key) == <<"h", ".", payload, ".", key>>

jwtVerify(token, key) ==
  LET parts == split(token, ".")
  IN IF Len(parts) = 3 /\ parts[3] = <<key>> /\ Len(parts[2]) = 1
     THEN [ok |-> TRUE, payload |-> parts[2][1]]
     ELSE [ok |-> FALSE, payload |-> ""]

Decoded(payload) == [t |-> "object", payload |-> payload]

MsgInvalidToken == "Invalid token"
MsgNoToken ==
  "No JWT token found in Authorization header, cookies, or token parameter"

(* JWTTool.verifyToken *)
verifyToken(token) ==
  IF jwtVerify(token, secretKey).ok
  THEN [status |-> 200, content |-> Decoded(jwtVerify(token, secretKey).payload)]
  ELSE [status |-> 401, content |-> Message(MsgInvalidToken)]

(* JWTTool.signToken *)
signToken(payload) ==
  [status |-> 200, content |-> Str(jwtSign(payload, secretKey))]

kwBearer == <<"B", "e", "a", "r", "e", "r", " ">>
nameJwtToken == <<"j", "w", "t", "-", "t", "o", "k", "e", "n">>
nameCustom == <<"c", "u", "s", "t", "o", "m", "-", "t", "o", "k", "e", "n">>

(* the tokens of the requests: one per place a token can come from, each    *)
(* signed with the tool's key, and one signed with another key              *)
tokHeader == jwtSign("a", secretKey)
tokCookie == jwtSign("b", secretKey)
tokParam == jwtSign("c", secretKey)
tokForged == jwtSign("a", otherKey)

NoHeaders == [present |-> FALSE, authorization |-> Undefined, cookie |-> Undefined]

NoCookies == [t |-> "undefined", name |-> <<>>, value |-> <<>>]

JwtVerifyParams ==
  { [action |-> "verify", headers |-> h, cookies |-> ck, cookieName |-> cn,
     token |-> tk] :
      h \in {NoHeaders} \cup
            [present : {TRUE},
             authorization : {Undefined, Str(kwBearer \o tokHeader),
                              Str(kwBearer \o tokForged),
                              Str(<<"B", "a", "s", "i", "c", " ", "q">>)},
             cookie : {Undefined,
                       Str(nameJwtToken \o <<"=">> \o tokCookie),
                       Str(<<"s", "=", "1", ";", " ">> \o nameCustom
                           \o <<"=">> \o tokCookie)}],
      ck \in {NoCookies,
              [t |-> "object", name |-> nameJwtToken, value |-> tokCookie],
              [t |-> "object", name |-> nameCustom, value |-> tokCookie]},
      cn \in {Undefined, Str(nameCustom)},
      tk \in {Undefined, Str(tokParam), Str(tokForged)} }

JwtOtherParams ==
  [action : {"sign", "decode", "refresh"}, headers : {NoHeaders},
   cookies : {NoCookies}, cookieName : {Undefined},
   token : {Undefined, Str(tokParam)}]

JwtParams == JwtVerifyParams \cup JwtOtherParams

(* `headers?.get(name)` *)
HeaderGet(headers, name) ==
  IF ~headers.present THEN Undefined
  ELSE IF name = "authorization" THEN headers.authorization
  ELSE headers.cookie

(* JWTTool.use lines 176-179: the cookies of the cookie header, and the     *)
(* first one that starts with the token's name and an equals sign           *)
CookieList(cookieStr) ==
  LET parts == split(cookieStr, ";")
  IN [i \in 1..Len(parts) |-> trim(parts[i])]

IsTokenCookie(c, tokenName) ==
  \/ startsWith(c, tokenName \o <<"=">>)
  \/ startsWith(c, tokenName \o <<" ", "=">>)

(* JWTTool.use lines 163-197: the verify action *)
JwtVerifyAction(p) ==
  LET authHeader == HeaderGet(p.headers, "authorization")
      cookieStr == HeaderGet(p.headers, "cookie")
      tokenName == IF Falsy(p.cookieName) THEN nameJwtToken ELSE p.cookieName.s
      cookies == IF Falsy(cookieStr) THEN <<>> ELSE CookieList(cookieStr.s)
      found == { i \in 1..Len(cookies) : IsTokenCookie(cookies[i], tokenName) }
      tokenCookie == cookies[CHOOSE i \in found : \A j \in found : i <= j]
  IN IF ~Falsy(authHeader) /\ startsWith(authHeader.s, kwBearer)
     THEN verifyToken(substring(authHeader.s, 7))
     ELSE IF p.cookies.t # "undefined" /\ ~Falsy(cookieStr) /\ found # {}
     THEN verifyToken(trim(join(Tail(split(tokenCookie, "=")), "=")))
     ELSE IF ~Falsy(p.token) THEN verifyToken(p.token.s)
     ELSE [status |-> 401, content |-> Message(MsgNoToken)]

(* JWTTool.decodeToken: jwt.decode does not check the signature, and gives  *)
(* null for what is no token                                                *)
decodeToken(token) ==
  IF token.t = "string" /\ Len(split(token.s, ".")) = 3
  THEN [status |-> 200, content |-> Decoded(split(token.s, ".")[2][1])]
  ELSE [status |-> 200, content |-> [t |-> "null"]]

(* JWTTool.use: no await in it *)
JwtUse(p) ==
  CASE p.action = "sign" -> ToolDone(p, signToken("c"))
    [] p.action = "verify" -> ToolDone(p, JwtVerifyAction(p))
    [] p.action = "decode" -> ToolDone(p, decodeToken(p.token))
    [] OTHER ->
         ToolDone(p, [status |-> 400,
                      content |-> Message("Error: Unsupported action: " \o p.action)])
(* ------------------------------ BcryptTool ------------------------------ *)
BcryptParams ==
  [action : {"hash", "compare", "verify"}, password : {Str(<<"p", "w">>), Undefined}]

LibraryOutcomes == {"ok", "error"}

(* BcryptTool.use up to the await in hashPassword or comparePassword *)
BcryptStart(p) ==
  IF p.action \in {"hash", "compare"} THEN ToolAwait(p, p.action)
  ELSE ToolDone(p, [status |-> 400,
                    content |-> Message("Error: Unsupported action: " \o p.action)])

(* BcryptTool.hashPassword and comparePassword after the await *)
BcryptResume(call, outcome) ==
  IF outcome = "ok"
  THEN ToolDone(call.params,
                [status |-> 200,
                 content |-> IF call.pc = "hash" THEN Message("$2a$10$hash")
                             ELSE [t |-> "boolean", b |-> TRUE]])
  ELSE ToolDone(call.params,
                [status |-> 500,
                 content |-> Message(IF call.pc = "hash"
                                     THEN "Failed to hash password: error"
                                     ELSE "Failed to compare password: error")])

(* ---------------------------- S3StorageTool ----------------------------- *)
S3Params ==
  [operation : {"read", "write", "delete", "list", "count", "copy"},
   path : {pData}]

(* how a request to the object store ends; "absent" is exists() answering  *)
(* false                                                                    *)
S3Outcomes == {"ok", "absent", "ERR_S3_INVALID_PATH", "ERR_S3_MISSING_CREDENTIALS"}

(* S3StorageTool.use up to the first await *)
S3Start(p) ==
  IF p.operation \in {"read", "write", "delete", "list", "count"}
  THEN ToolAwait(p, p.operation)
  ELSE ToolDone(p, [status |-> 400,
                    content |-> Message("Invalid operation: " \o p.operation)])

(* S3StorageTool.use after an await: the next await of readFromS3, the      *)
(* result, or the catch block                                               *)
S3Resume(call, outcome) ==
  LET p == call.params
  IN CASE outcome = "ERR_S3_INVALID_PATH" ->
            ToolDone(p, [status |-> 404,
                         content |-> Message("Error: Key not found. Path: data")])
       [] outcome = "ERR_S3_MISSING_CREDENTIALS" ->
            ToolDone(p, [status |-> 500, content |-> Message("Error: " \o outcome)])
       [] outcome = "absent" /\ call.pc = "read" ->
            ToolDone(p, [status |-> 500, content |-> Message("Error: NoSuchKey")])
       [] call.pc = "read" -> ToolAwait(p, "body")
       [] call.pc = "body" -> ToolDone(p, [status |-> 200, content |-> Message("text")])
       [] call.pc = "write" ->
            ToolDone(p, [status |-> 200,
                         content |-> Message("Write operation successful")])
       [] call.pc = "delete" ->
            ToolDone(p, [status |-> 200,
                         content |-> Message("Delete operation successful")])
       [] call.pc = "list" ->
            ToolDone(p, [status |-> 200, content |-> [t |-> "array", a |-> <<>>]])
       [] OTHER -> ToolDone(p, [status |-> 200, content |-> Num(0)])

(* ----------------------------- GreetingTool ----------------------------- *)
defaultGreeting == <<"H", "e", "l", "l", "o">>
nameWorld == <<"W", "o", "r", "l", "d">>

GreetingParams ==
  { [t |-> "undefined", name |-> Undefined] } \cup
  [t : {"object"}, name : {Undefined, Str(<<>>), Str(<<"T", "e", "s", "t">>)}]

(* GreetingTool.use: reading params.name of no object throws inside the try *)
GreetingUse(p) ==
  IF p.t = "undefined"
  THEN ToolDone(p, [status |-> 500,
                    content |-> Message("undefined is not an object")])
  ELSE LET name == IF Falsy(p.name) THEN nameWorld ELSE p.name.s
       IN ToolDone(p, [status |-> 200,
                       content |-> Str(defaultGreeting \o <<",", " ">> \o name
                                       \o <<"!">>)])

(* ------------------------- SpecTools: the actions ----------------------- *)
SiblingTools ==
  {"FileSystemTool", "MustacheTool", "JWTTool", "BcryptTool", "S3StorageTool",
   "GreetingTool"}

ToolParams ==
  CASE tool = "FileSystemTool" -> FileSystemParams
    [] tool = "MustacheTool" -> MustacheParams
    [] tool = "JWTTool" -> JwtParams
    [] tool = "BcryptTool" -> BcryptParams
    [] tool = "S3StorageTool" -> S3Params
    [] OTHER -> GreetingParams

ToolOutcomes ==
  CASE tool \in {"FileSystemTool", "MustacheTool"} -> FileOutcomes
    [] tool = "S3StorageTool" ->
         IF tcall.pc = "read" THEN S3Outcomes ELSE S3Outcomes \ {"absent"}
    [] OTHER -> LibraryOutcomes

ToolsInit ==
  /\ cfg \in { k \in Configs : k.cls = "SqlTool" /\ k.type = "sqlite"
                               /\ ~k.file /\ ~k.script }
  /\ connection = 0
  /\ hstate = <<>>
  /\ hscript = <<>>
  /\ calls = <<>>
  /\ initdb = "none"
  /\ checkedOut = 0
  /\ cleanups = 0
  /\ cleanupRaised = FALSE
  /\ early = FALSE
  /\ store = EmptyStore
  /\ conn = <<>>
  /\ dcalls = <<>>
  /\ tool \in SiblingTools
  /\ tcall = IdleTool

(* use is called: the tool runs up to its first await, or to its end *)
ToolStart(p) ==
  /\ tcall.pc \in {"idle", "done"}
  /\ tcall' =
       CASE tool = "FileSystemTool" -> FileSystemStart(p)
         [] tool = "MustacheTool" -> MustacheStart(p)
         [] tool = "JWTTool" -> JwtUse(p)
         [] tool = "BcryptTool" -> BcryptStart(p)
         [] tool = "S3StorageTool" -> S3Start(p)
         [] OTHER -> GreetingUse(p)
  /\ UNCHANGED <<cfg, connection, hstate, hscript, calls, initdb, checkedOut,
                 cleanups, cleanupRaised, early, dvars, tool>>

(* the awaited primitive answers and use goes on *)
ToolResume(outcome) ==
  /\ tcall.pc \notin {"idle", "done"}
  /\ tcall' =
       CASE tool = "FileSystemTool" -> FileSystemResume(tcall, outcome)
         [] tool = "MustacheTool" -> MustacheResume(tcall, outcome)
         [] tool = "BcryptTool" -> BcryptResume(tcall, outcome)
         [] OTHER -> S3Resume(tcall, outcome)
  /\ UNCHANGED <<cfg, connection, hstate, hscript, calls, initdb, checkedOut,
                 cleanups, cleanupRaised, early, dvars, tool>>

ToolsNext ==
  \/ \E p \in ToolParams : ToolStart(p)
  \/ \E outcome \in ToolOutcomes : ToolResume(outcome)

SpecTools == ToolsInit /\ [][ToolsNext]_vars

(* --------------------- properties of the sibling tools ------------------ *)
ToolReturned == tcall.pc = "done" /\ tcall.out = "envelope"

(* C21, as claimed: every envelope a sibling tool returns from use is an    *)
(* object with a numeric status and a content field, on success and on      *)
(* handled errors alike.                                                    *)
C21_SameEnvelopeShape ==
  ToolReturned =>
    /\ {"status", "content"} \subseteq DOMAIN tcall.env
    /\ tcall.env.status \in 100..599

(* the tokens the three places of a verify request supply, in the order     *)
(* Authorization header, cookies parameter, token parameter                 *)
SuppliedTokens(p) ==
  LET authHeader == HeaderGet(p.headers, "authorization")
      tokenName == IF Falsy(p.cookieName) THEN nameJwtToken ELSE p.cookieName.s
  IN (IF ~Falsy(authHeader) /\ startsWith(authHeader.s, kwBearer)
      THEN <<substring(authHeader.s, 7)>> ELSE <<>>)
     \o (IF p.cookies.t = "object" /\ p.cookies.name = tokenName
         THEN <<p.cookies.value>> ELSE <<>>)
     \o (IF ~Falsy(p.token) THEN <<p.token.s>> ELSE <<>>)

(* C22, as claimed: verify takes the token of the first of Authorization    *)
(* header, cookies parameter (under cookieName, default 'jwt-token') and    *)
(* token parameter that supplies one and verifies it; 401 'No JWT token     *)
(* found ...' is returned exactly when none of the three supplies a token.  *)
C22_VerifySourceOrder ==
  tool = "JWTTool" /\ ToolReturned /\ tcall.params.action = "verify" =>
    LET supplied == SuppliedTokens(tcall.params)
    IN IF supplied = <<>>
       THEN tcall.env = [status |-> 401, content |-> Message(MsgNoToken)]
       ELSE tcall.env = verifyToken(supplied[1])

(* a string parameter holds one of the comment/terminator fragments         *)
(* '; drop', '--', a comment opener or a comment closer                     *)
HasFragmentParam(values) ==
  /\ values.t = "array"
  /\ \E i \in 1..Len(values.a) :
       values.a[i].t = "string" /\ HasFragment(values.a[i].s)

(* C23, as claimed: SqlTool.use rejects a call with status 400 'Potential   *)
(* SQL injection detected' when a string parameter holds a comment or       *)
(* terminator fragment, and rejects no call for its parameters otherwise:   *)
(* numbers and null never cause a rejection.                                *)
C23_StringParametersScreened ==
  \A c \in DataCalls :
    cfg.cls = "SqlTool" /\ Returned(c) =>
      LET values == DefaultValues(DataReq(c).values)
      IN /\ HasFragmentParam(values) => dcalls[c].env = InjectionEnvelope
         /\ dcalls[c].env = InjectionEnvelope =>
              HasFragmentParam(values) \/ HasDropTable(DataReq(c).query)

(* the two ways a result is derived from what the backend did (x): as the   *)
(* rows returned and their number, or as no rows and the change count       *)
DerivedAsRows(content, x) ==
  content.rows = x.rows /\ content.affectedRows = Len(x.rows)

DerivedAsChanges(content, x) ==
  content.rows = <<>> /\ content.affectedRows = x.changes

(* C24, as claimed: on every backend of SqlTool the result of a successful  *)
(* statement is derived as rows exactly when the trimmed, lower-cased query *)
(* text begins with 'select', and as a change count otherwise, whatever     *)
(* the backend handed back.                                                 *)
C24_LexicalClassification ==
  [][\A c \in DataCalls :
       (cfg.cls = "SqlTool" /\ Returns(c) /\ Ok200(dcalls'[c].env)) =>
         LET x == Execute(DReq(c).query.s, DefaultValues(DReq(c).values), store)
             content == dcalls'[c].env.content
         IN IF isSelect(DReq(c).query.s)
            THEN DerivedAsRows(content, x)
            ELSE DerivedAsChanges(content, x)]_vars

(* C25: in SqlTool.use, initialize, the trust screen and executeQuery on    *)
(* the caller's query are each called at most once, and the screen never    *)
(* after the query was handed to the adapter; a call whose statement        *)
(* reached the backend was screened exactly once and submitted exactly      *)
(* once, also when the backend failed it, and a call whose initialization   *)
(* failed attempted it exactly once.                                        *)
C25_OncePerCall ==
  \A c \in Calls :
    cfg.cls = "SqlTool" =>
      /\ calls[c].nInit <= 1 /\ calls[c].nScreen <= 1 /\ calls[c].nExec <= 1
      /\ ~calls[c].lateScreen
      /\ calls[c].nExec = 1 => calls[c].nScreen = 1
      /\ calls[c].served # 0 => calls[c].nScreen = 1 /\ calls[c].nExec = 1
      /\ calls[c].initThrew =>
           /\ calls[c].nInit = 1 /\ calls[c].nScript <= 1
           /\ \A d \in Calls : d # c /\ calls[c].created # 0 =>
                calls[d].created # calls[c].created

(* one call's statement reached the backend and was failed by it, after    *)
(* one screening and one submission; another call's initialization failed,  *)
(* attempted once                                                           *)
C25_Witness ==
  /\ cfg.cls = "SqlTool"
  /\ \E c, d \in Calls :
       /\ Done(c) /\ calls[c].served # 0 /\ calls[c].env.status = 400
       /\ calls[c].nScreen = 1 /\ calls[c].nExec = 1
       /\ Done(d) /\ calls[d].initThrew /\ calls[d].nInit = 1

(* the use calls made so far *)
Started(c) == calls[c].pc # "idle"

(* C26: in sequential use of SqlTool or SqliteTool, a use call that finds   *)
(* a handle does not initialize: it creates no handle, runs no script and,  *)
(* in SqlTool, goes on to the trust screen with its query.  With no         *)
(* cleanup, once the first call has left the handle it created, exactly    *)
(* one handle has been created, the script has been executed exactly once,  *)
(* by the first call, and every later call found the handle.                *)
C26_InitializedOnce ==
  cfg.cls \in {"SqlTool", "SqliteTool"} =>
    /\ \A c \in Calls :
         Started(c) /\ ~calls[c].absent =>
           /\ calls[c].nInit = 0 /\ calls[c].created = 0 /\ calls[c].nScript = 0
           /\ Done(c) /\ cfg.cls = "SqlTool" /\ ~Falsy(calls[c].req.query) =>
                calls[c].nScreen = 1
    /\ cleanups = 0 /\ Done(1) /\ connection # 0
         /\ connection = calls[1].created =>
         /\ NumHandles = 1 /\ calls[1].created = 1 /\ calls[1].nInit = 1
         /\ calls[1].nScript = IF cfg.script THEN 1 ELSE 0
         /\ \A c \in Calls : c > 1 /\ Started(c) => ~calls[c].absent

(* two calls in a row on an instance with a script and no cleanup: the      *)
(* first created the handle and ran the script, the second did neither and  *)
(* was screened and served on that handle                                   *)
C26_Witness ==
  /\ cfg.cls = "SqlTool" /\ cfg.script /\ cleanups = 0
  /\ NumHandles = 1
  /\ Done(1) /\ calls[1].created = 1 /\ calls[1].nScript = 1
  /\ Done(2) /\ calls[2].nInit = 0 /\ calls[2].nScript = 0
  /\ calls[2].nScreen = 1 /\ calls[2].served = 1

(* ------------------------------------------------------------------------ *)
(* C27: on PostgreSQLTool's pool, a use call that finds every client taken  *)
(* waits: it is never rejected, it stays in pool.connect() only while no    *)
(* client is free to it, and it eventually acquires a client, submits its   *)
(* statement once and completes with an envelope, given that the server     *)
(* answers every statement that holds a client.                             *)
Waiting(c) == calls[c].pc = "connect" /\ calls[c].waited

Completed(c) ==
  /\ calls[c].pc = "done" /\ calls[c].out = "envelope"
  /\ calls[c].nExec = 1 /\ calls[c].env.status \in {200, 400}

C27_WaitingCallsComplete ==
  /\ [](\A c \in Calls : calls[c].waited => calls[c].out # "rejected")
  /\ \A c \in Calls : Waiting(c) ~> Completed(c)

C27_Witness ==
  \E c \in Calls :
    /\ calls[c].waited /\ Completed(c)
    /\ \E d \in Calls \ {c} : Completed(d)

(* ------------------------------------------------------------------------ *)
(* C28, as claimed: on the embedded backend, under any interleaving of use  *)
(* calls, the affectedRows reported for a successful INSERT, UPDATE or      *)
(* DELETE is the number of rows that call's own statement changed, and the  *)
(* lastInsertId reported is a value of that call's own statement: for an    *)
(* INSERT the identifier of the row it added, for an UPDATE or DELETE never *)
(* the identifier that another call's INSERT generated.                     *)
OwnChanges(c) == Execute(DReq(c).query.s, DReq(c).values, store).changes

OwnInsertId(c) == Execute(DReq(c).query.s, DReq(c).values, store).insertId

InsertedBy(d, id) ==
  /\ Returned(d) /\ DataKind(d) = "insert" /\ Ok200(dcalls[d].env)
  /\ dcalls[d].env.content.lastInsertId = id

C28_OwnStatementValues ==
  [][\A c \in DataCalls :
       (/\ cfg.type = "sqlite"
        /\ Returns(c) /\ Ok200(dcalls'[c].env)
        /\ DKind(c) \in {"insert", "update", "delete"}) =>
         /\ dcalls'[c].env.content.affectedRows = OwnChanges(c)
         /\ IF DKind(c) = "insert"
            THEN dcalls'[c].env.content.lastInsertId = Num(OwnInsertId(c))
            ELSE \A d \in DataCalls \ {c} :
                   ~InsertedBy(d, dcalls'[c].env.content.lastInsertId)]_vars

(* ------------------------------------------------------------------------ *)
(* C29: in PostgreSQLTool the number of clients checked out of the pool is  *)
(* at all times the number of statements in flight (use calls between       *)
(* pool.connect() and their finally block, plus the constructor's script    *)
(* between its connect and its finally block): a client acquired is         *)
(* released exactly once, after a success, a query error or a script        *)
(* failure, a call that returns before connect holds none, and no client    *)
(* is checked out once every call and the script have completed.            *)
HoldsClient(c) == calls[c].pc \in {"exec_wait", "exec_ret"}

ScriptHoldsClient == initdb \in {"query", "ok_ret", "err_ret"}

QueriesInFlight ==
  Cardinality({ c \in Calls : HoldsClient(c) })
    + (IF ScriptHoldsClient THEN 1 ELSE 0)

AllCompleted ==
  /\ \A c \in Calls : calls[c].pc \in {"idle", "done"}
  /\ initdb \in {"none", "done", "failed"}

C29_ClientsReleased ==
  cfg.cls = "PostgreSQLTool" =>
    /\ checkedOut = QueriesInFlight
    /\ checkedOut <= PoolMax
    /\ AllCompleted => checkedOut = 0

C29_Witness ==
  /\ cfg.cls = "PostgreSQLTool" /\ initdb = "failed"
  /\ \A c \in Calls : calls[c].pc = "done" /\ calls[c].nExec = 1
  /\ \E c \in Calls : calls[c].env.status = 200
  /\ \E c \in Calls : calls[c].env.status = 400
  /\ checkedOut = 0

(* ------------------------------------------------------------------------ *)
(* C30, as claimed: a SqlTool.use call during whose suspension cleanup()    *)
(* ran ends with an envelope of status 200 or 400, never rejected; and the  *)
(* first use call issued after such a cleanup() initializes: unless its     *)
(* initialization throws it creates a handle of its own, and if no          *)
(* cleanup() interrupts it a valid, trusted query of it is handed to the    *)
(* backend once and answered with a query result.                           *)
CleanupInterrupted(c) == calls[c].interruptedAt > 0

FirstAfterInterruption(d) ==
  /\ Started(d)
  /\ \E c \in Calls \ {d} :
       CleanupInterrupted(c) /\ calls[c].interruptedAt <= calls[d].cleanupsBefore
  /\ \A e \in Calls :
       e < d => calls[e].cleanupsBefore < calls[d].cleanupsBefore

C30_CleanupDuringUse ==
  cfg.cls = "SqlTool" =>
    /\ \A c \in Calls :
         Done(c) /\ CleanupInterrupted(c) =>
           calls[c].out = "envelope" /\ calls[c].env.status \in {200, 400}
    /\ \A d \in Calls :
         FirstAfterInterruption(d) =>
           /\ calls[d].nInit = 1
           /\ Done(d) /\ ~calls[d].initThrew =>
                /\ calls[d].created # 0
                /\ \A e \in Calls : e # d => calls[e].created # calls[d].created
                /\ calls[d].out = "envelope"
                /\ ~CleanupInterrupted(d)
                     /\ ~Falsy(calls[d].req.query)
                     /\ isTrustedQuery(calls[d].req.query,
                                       DefaultValues(calls[d].req.values)) = "trusted"
                     => /\ calls[d].nExec = 1
                        /\ calls[d].served # 0
                        /\ calls[d].env.status \in {200, 400}
                        /\ "rows" \in DOMAIN calls[d].env.content

====
